---- MODULE Spec2Model ----
(***************************************************************************)
(* PasteMD: the hotkey recorder (domains/hotkey/recorder.py), the hotkey   *)
(* validator (utils/win32/hotkey_checker.py) and the CF_HTML fragment      *)
(* extractor (utils/clipboard.py).                                         *)
(*                                                                         *)
(* Python values are represented as follows.  A str is a TLA+ string, a    *)
(* bytes object is a tuple of integers 0..255, a set is a set, a list is a *)
(* tuple.  An Optional value is None (the empty tuple) or Some(v) (the     *)
(* one-element tuple), so that a value and its absence compare.            *)
(***************************************************************************)
EXTENDS Integers, Sequences, FiniteSets, TLC

VARIABLES
    \* HotkeyRecorder fields (recorder.py 15-21)
    recording, pressed_keys, released_keys, all_pressed_keys,
    recording_listener, on_update_callback, on_finish_callback,
    \* the keyboard and the pynput listeners, and what the callbacks saw
    held, running_listeners, session, events, press_after_release,
    update_count, last_update, finish_calls,
    \* the callbacks invoked in the session, whether an exception has left a
    \* key handler, and the last call made on the recorder
    invoked, escaped, last_call,
    \* HotkeyChecker run: input, position, outputs
    v_keys, v_detailed, v_pc, v_keys_error, v_hotkey_str, v_str_error,
    v_display,
    \* CF_HTML extractor run: the container's layout, the container, position,
    \* outcome
    x_layout, x_input, x_pc, x_outcome,
    \* clipboard poller call: arguments, locals, position, return value, the
    \* monotonic clock (ms since the call), what each attempt did and when it
    \* started, the OpenClipboard and CloseClipboard calls made; the
    \* clipboard: whether the HTML format is available and when it became so
    p_wait_ms, p_interval_ms, p_deadline, p_interval, p_last_error, p_pc,
    p_result, p_now, p_starts, p_outcomes, p_calls, clip_available,
    clip_rendered_at,
    \* read_markdown_files_from_clipboard call: the platform, the clipboard's
    \* file list, the disk, position, locals, the paths handled so far, the
    \* return value
    m_platform, m_clip, m_fs, m_pc, m_all_files, m_md_files, m_next,
    m_processed, m_files_data, m_errors, m_result,
    \* HotkeyRecorder with its two threads: the fields, whether the listener
    \* delivers events, the callbacks, the listener thread's position and
    \* locals, the caller's position in stop_recording, and what was observed
    rc_recording, rc_pressed_keys, rc_released_keys, rc_all_pressed_keys,
    rc_listener, rc_running, rc_on_update, rc_on_finish, rc_pc, rc_key,
    rc_display, rc_error, rc_hotkey_str, rc_stop_pc, rc_late, rc_finish,
    \* HotkeyRunner.start call: the configured hotkey, app_state, the
    \* collaborators, position, locals, and the calls made
    h_configured, h_hotkey_str, h_config_hotkey, h_config_loader,
    h_notification_manager, h_pc, h_hotkey, h_error, h_binds, h_saves,
    h_notifications, h_bound,
    \* execute_docx_batch call: the arguments, the disk, position, locals,
    \* the notifications, the final clipboard copy, the return value
    b_action, b_items, b_from_html, b_pre_failures, b_disk, b_pc,
    b_normalized, b_next, b_success_paths, b_failures, b_notifications,
    b_copy, b_result,
    \* workflow run: which workflow, the config, position, the locals, what
    \* the placer and the save did, the notifications
    w_workflow, w_config, w_pc, w_content_type, w_from_md_file,
    w_md_file_count, w_placed, w_saved, w_notifications

recVars == <<recording, pressed_keys, released_keys, all_pressed_keys,
             recording_listener, on_update_callback, on_finish_callback,
             held, running_listeners, session, events, press_after_release,
             update_count, last_update, finish_calls, invoked, escaped,
             last_call>>
valVars == <<v_keys, v_detailed, v_pc, v_keys_error, v_hotkey_str, v_str_error,
             v_display>>
extVars == <<x_layout, x_input, x_pc, x_outcome>>
polVars ==
    <<p_wait_ms, p_interval_ms, p_deadline, p_interval, p_last_error, p_pc,
      p_result, p_now, p_starts, p_outcomes, p_calls, clip_available,
      clip_rendered_at>>
mdVars ==
    <<m_platform, m_clip, m_fs, m_pc, m_all_files, m_md_files, m_next,
      m_processed, m_files_data, m_errors, m_result>>
\* the components other than the recorder, the validator, the extractor and
\* the poller
raceVars ==
    <<rc_recording, rc_pressed_keys, rc_released_keys, rc_all_pressed_keys,
      rc_listener, rc_running, rc_on_update, rc_on_finish, rc_pc, rc_key,
      rc_display, rc_error, rc_hotkey_str, rc_stop_pc, rc_late, rc_finish>>
runVars ==
    <<h_configured, h_hotkey_str, h_config_hotkey, h_config_loader,
      h_notification_manager, h_pc, h_hotkey, h_error, h_binds, h_saves,
      h_notifications, h_bound>>
batVars ==
    <<b_action, b_items, b_from_html, b_pre_failures, b_disk, b_pc,
      b_normalized, b_next, b_success_paths, b_failures, b_notifications,
      b_copy, b_result>>
wfVars ==
    <<w_workflow, w_config, w_pc, w_content_type, w_from_md_file,
      w_md_file_count, w_placed, w_saved, w_notifications>>
otherVars == <<mdVars, raceVars, runVars, batVars, wfVars>>
vars == <<recVars, valVars, extVars, polVars, otherVars>>

----------------------------------------------------------------------------
(* Bounds *)

\* key events delivered to the handlers in one recording session
MaxEvents == 6

\* the poller is called with wait_ms in -1..MaxWait and interval_ms in
\* -1..MaxInterval; a clipboard call or a sleep overruns by up to MaxDelay ms
MaxWait == 3
MaxInterval == 2
MaxDelay == 1

\* paths in the clipboard's file list
MaxFiles == 2

\* items in a batch
MaxItems == 2

----------------------------------------------------------------------------
(* Optional values *)

None == <<>>
Some(v) == <<v>>

----------------------------------------------------------------------------
(* Characters and strings, as Python's str operations compute them *)

\* the printable ASCII characters: code points 32..95 and 97..126 in order
\* (code point 96 cannot be written in a TLA+ string and is left out)
PrintableLow == " !\"#$%&'()*+,-./0123456789:;<=>?@ABCDEFGHIJKLMNOPQRSTUVWXYZ[\\]^_"
PrintableHigh == "abcdefghijklmnopqrstuvwxyz{|}~"

CharAt(s, i) == SubSeq(s, i, i)

\* ord(c)
Ord(c) ==
    CASE c = "\t" -> 9
      [] c = "\n" -> 10
      [] c = "\r" -> 13
      [] \E i \in 1..Len(PrintableLow) : CharAt(PrintableLow, i) = c ->
            31 + (CHOOSE i \in 1..Len(PrintableLow) : CharAt(PrintableLow, i) = c)
      [] OTHER ->
            96 + (CHOOSE i \in 1..Len(PrintableHigh) : CharAt(PrintableHigh, i) = c)

\* chr(n)
Chr(n) ==
    CASE n = 9 -> "\t"
      [] n = 10 -> "\n"
      [] n = 13 -> "\r"
      [] n \in 32..95 -> CharAt(PrintableLow, n - 31)
      [] OTHER -> CharAt(PrintableHigh, n - 96)

IsUpperChar(c) == Ord(c) \in 65..90
IsLowerChar(c) == Ord(c) \in 97..122
LowerChar(c) == IF IsUpperChar(c) THEN Chr(Ord(c) + 32) ELSE c
UpperChar(c) == IF IsLowerChar(c) THEN Chr(Ord(c) - 32) ELSE c

\* str.lower()
RECURSIVE Lower(_)
Lower(s) == IF s = "" THEN "" ELSE LowerChar(CharAt(s, 1)) \o Lower(Tail(s))

\* str.upper()
RECURSIVE Upper(_)
Upper(s) == IF s = "" THEN "" ELSE UpperChar(CharAt(s, 1)) \o Upper(Tail(s))

\* str.title(): a cased character is upper-cased when it follows an uncased
\* one (or starts the string) and lower-cased otherwise
RECURSIVE TitleFrom(_, _)
TitleFrom(s, prevCased) ==
    IF s = "" THEN ""
    ELSE LET c == CharAt(s, 1)
             cased == IsUpperChar(c) \/ IsLowerChar(c)
         IN  (IF prevCased THEN LowerChar(c) ELSE UpperChar(c))
                 \o TitleFrom(Tail(s), cased)

Title(s) == TitleFrom(s, FALSE)

\* a < b for str: lexicographic by code point
RECURSIVE StrLess(_, _)
StrLess(a, b) ==
    IF b = "" THEN FALSE
    ELSE IF a = "" THEN TRUE
    ELSE IF CharAt(a, 1) = CharAt(b, 1) THEN StrLess(Tail(a), Tail(b))
    ELSE Ord(CharAt(a, 1)) < Ord(CharAt(b, 1))

\* sorted(S) for a collection of distinct str
RECURSIVE Sorted(_)
Sorted(S) ==
    IF S = {} THEN <<>>
    ELSE LET m == CHOOSE x \in S : \A y \in S \ {x} : StrLess(x, y)
         IN  <<m>> \o Sorted(S \ {m})

\* sep.join(parts)
RECURSIVE Join(_, _)
Join(parts, sep) ==
    IF parts = <<>> THEN ""
    ELSE IF Len(parts) = 1 THEN parts[1]
    ELSE parts[1] \o sep \o Join(Tail(parts), sep)

\* s.find(sub) + 1: the least position where sub occurs in s, 0 if none
\* (s and sub both str, or both bytes)
Find(s, sub) ==
    LET hits == {i \in 1..(Len(s) - Len(sub) + 1) :
                    SubSeq(s, i, i + Len(sub) - 1) = sub}
    IN  IF hits = {} THEN 0 ELSE CHOOSE i \in hits : \A j \in hits : i <= j

\* s.split(sep)
RECURSIVE Split(_, _)
Split(s, sep) ==
    LET i == Find(s, sep)
    IN  IF i = 0 THEN <<s>>
        ELSE <<SubSeq(s, 1, i - 1)>>
                 \o Split(SubSeq(s, i + Len(sep), Len(s)), sep)

\* the whitespace characters of the alphabet
Whitespace == {" ", "\t", "\n", "\r"}

\* str.lstrip(), str.rstrip(), str.strip()
RECURSIVE LStrip(_)
LStrip(s) ==
    IF s # "" /\ CharAt(s, 1) \in Whitespace THEN LStrip(Tail(s)) ELSE s
RECURSIVE RStrip(_)
RStrip(s) ==
    IF s # "" /\ CharAt(s, Len(s)) \in Whitespace
    THEN RStrip(SubSeq(s, 1, Len(s) - 1)) ELSE s
Strip(s) == LStrip(RStrip(s))

\* str.replace(old, new)
RECURSIVE Replace(_, _, _)
Replace(s, old, new) ==
    IF Len(s) < Len(old) THEN s
    ELSE IF SubSeq(s, 1, Len(old)) = old
         THEN new \o Replace(SubSeq(s, Len(old) + 1, Len(s)), old, new)
    ELSE CharAt(s, 1) \o Replace(Tail(s), old, new)

\* [f(x) for x in seq] for the two per-element conversions the recorder uses
TitleAll(seq) == [i \in 1..Len(seq) |-> Title(seq[i])]

----------------------------------------------------------------------------
(* pynput keys *)

\* a keyboard.Key member has a name; a keyboard.KeyCode has vk and char
SpecialKey(name) == [kind |-> "Key", name |-> name]
KeyCode(vk, char) == [kind |-> "KeyCode", vk |-> vk, char |-> char]

KeyCtrlL == SpecialKey("ctrl_l")
KeyAltL == SpecialKey("alt_l")
KeyA == KeyCode(Some(65), Some("a"))
KeyDead == KeyCode(None, None)

\* the keys of the modelled keyboard
Keys == {KeyCtrlL, KeyAltL, KeyA, KeyDead}

\* HotkeyRecorder._get_key_name
get_key_name(key) ==
    IF key.kind = "Key" THEN
        IF key.name \in {"ctrl", "ctrl_l", "ctrl_r"} THEN Some("ctrl")
        ELSE IF key.name \in {"shift", "shift_l", "shift_r"} THEN Some("shift")
        ELSE IF key.name \in {"alt", "alt_l", "alt_r"} THEN Some("alt")
        ELSE IF key.name = "cmd" THEN Some("cmd")
        ELSE Some(Lower(key.name))
    ELSE IF key.vk = None THEN None   \* 65 <= None raises; caught, None
    ELSE LET vk == key.vk[1] IN
        IF vk \in 65..90 THEN Some(Lower(Chr(vk)))
        ELSE IF vk \in 48..57 THEN Some(Chr(vk))
        ELSE IF vk \in 96..105 THEN Some("num" \o Chr(48 + vk - 96))
        ELSE IF key.char # None /\ key.char[1] # "" /\ Ord(key.char[1]) >= 32
             THEN Some(Lower(key.char[1]))
        ELSE None

----------------------------------------------------------------------------
(* i18n *)

\* t(key): the message of a translation key
t(key) == key
\* t(key, combo=...)
t_combo(key, combo) == key \o "{" \o combo \o "}"

----------------------------------------------------------------------------
(* HotkeyChecker *)

\* mutant: the Windows key is not counted as a modifier
MODIFIER_KEYS_NoWin == {"ctrl", "shift", "alt", "cmd"}

MODIFIER_KEYS == {"ctrl", "shift", "alt", "cmd", "win"}

\* the dict, in insertion order: <<combo, description key>>
SYSTEM_HOTKEY_DESCRIPTIONS == <<
    << <<"ctrl", "c">>, "hotkey.recorder.system.ctrl_c" >>,
    << <<"ctrl", "v">>, "hotkey.recorder.system.ctrl_v" >>,
    << <<"ctrl", "x">>, "hotkey.recorder.system.ctrl_x" >>,
    << <<"ctrl", "z">>, "hotkey.recorder.system.ctrl_z" >>,
    << <<"ctrl", "y">>, "hotkey.recorder.system.ctrl_y" >>,
    << <<"ctrl", "a">>, "hotkey.recorder.system.ctrl_a" >>,
    << <<"ctrl", "s">>, "hotkey.recorder.system.ctrl_s" >>,
    << <<"ctrl", "f">>, "hotkey.recorder.system.ctrl_f" >>,
    << <<"ctrl", "p">>, "hotkey.recorder.system.ctrl_p" >>,
    << <<"ctrl", "n">>, "hotkey.recorder.system.ctrl_n" >>,
    << <<"ctrl", "w">>, "hotkey.recorder.system.ctrl_w" >>,
    << <<"ctrl", "t">>, "hotkey.recorder.system.ctrl_t" >>,
    << <<"alt", "f4">>, "hotkey.recorder.system.alt_f4" >> >>

\* set(combo)
ComboSet(combo) == {combo[i] : i \in 1..Len(combo)}

\* the entries of the table that the loop at 95-96 matches, in order
ReservedMatches(keys) ==
    {i \in 1..Len(SYSTEM_HOTKEY_DESCRIPTIONS) :
        keys = ComboSet(SYSTEM_HOTKEY_DESCRIPTIONS[i][1])}

\* the message returned at 97-100 for the matched entry
ReservedError(entry, hotkey_repr, detailed) ==
    IF detailed
    THEN t_combo("hotkey.recorder.error.system_reserved_long", t(entry[2]))
    ELSE t_combo("hotkey.recorder.error.system_reserved_short",
                 IF hotkey_repr # "" THEN Upper(hotkey_repr)
                 ELSE Upper(Join(entry[1], "+")))

\* mutant: the shift-only rule is tested before the normal-key rule
validate_hotkey_keys_ShiftFirst(keys, hotkey_repr, detailed) ==
    IF (keys \cap MODIFIER_KEYS) = {} THEN Some(t("hotkey.recorder.error.no_modifier"))
    ELSE IF (keys \cap MODIFIER_KEYS) = {"shift"}
         THEN Some(t(IF detailed THEN "hotkey.recorder.error.shift_only_long"
                                 ELSE "hotkey.recorder.error.shift_only_short"))
    ELSE IF (keys \ MODIFIER_KEYS) = {} THEN Some(t("hotkey.recorder.error.no_normal_key"))
    ELSE IF ReservedMatches(keys) # {}
         THEN LET i == CHOOSE j \in ReservedMatches(keys) :
                           \A k \in ReservedMatches(keys) : j <= k
              IN  Some(ReservedError(SYSTEM_HOTKEY_DESCRIPTIONS[i],
                                     hotkey_repr, detailed))
    ELSE None

\* HotkeyChecker.validate_hotkey_keys
validate_hotkey_keys(keys, hotkey_repr, detailed) ==
    LET has_modifier == (keys \cap MODIFIER_KEYS) # {}
        has_normal_key == (keys \ MODIFIER_KEYS) # {}
    IN  IF ~has_modifier THEN Some(t("hotkey.recorder.error.no_modifier"))
        ELSE IF ~has_normal_key THEN Some(t("hotkey.recorder.error.no_normal_key"))
        ELSE IF (keys \cap MODIFIER_KEYS) = {"shift"}
             THEN Some(t(IF detailed THEN "hotkey.recorder.error.shift_only_long"
                                     ELSE "hotkey.recorder.error.shift_only_short"))
        ELSE IF ReservedMatches(keys) # {}
             THEN LET i == CHOOSE j \in ReservedMatches(keys) :
                               \A k \in ReservedMatches(keys) : j <= k
                  IN  Some(ReservedError(SYSTEM_HOTKEY_DESCRIPTIONS[i],
                                         hotkey_repr, detailed))
        ELSE None

\* HotkeyChecker._split_hotkey_keys
split_hotkey_keys(hotkey_str) ==
    LET parts == Split(Replace(Replace(Lower(hotkey_str), "<", ""), ">", ""), "+")
    IN  {Strip(parts[i]) : i \in 1..Len(parts)} \ {""}

\* HotkeyChecker.validate_hotkey_string (nothing in the try block raises
\* for a str argument, so the except branch is not taken)
validate_hotkey_string(hotkey_str, detailed) ==
    validate_hotkey_keys(split_hotkey_keys(hotkey_str), hotkey_str, detailed)

----------------------------------------------------------------------------
(* HotkeyRecorder: the pure helpers, over the ever-pressed set *)

modifier_order_Alphabetical == <<"alt", "cmd", "ctrl", "shift">>

modifier_order == <<"ctrl", "shift", "alt", "cmd">>

\* [x for x in seq if x in S], keeping the order of seq
RECURSIVE SelectIn(_, _)
SelectIn(seq, S) ==
    IF seq = <<>> THEN <<>>
    ELSE (IF seq[1] \in S THEN <<seq[1]>> ELSE <<>>) \o SelectIn(Tail(seq), S)

\* HotkeyRecorder._format_keys_for_display
format_keys_for_display(all_keys) ==
    IF all_keys = {} THEN ""
    ELSE LET modifiers == SelectIn(modifier_order, all_keys)
             keys == all_keys \ ComboSet(modifier_order)
         IN  Join(TitleAll(modifiers \o Sorted(keys)), " + ")

\* f"<{key}>" if len(key) > 1 else key  (229-232)
WrapKey(key) == IF Len(key) > 1 THEN "<" \o key \o ">" ELSE key

\* HotkeyRecorder._generate_hotkey_string
generate_hotkey_string(all_keys) ==
    LET mods == SelectIn(modifier_order, all_keys)
        modifiers == [i \in 1..Len(mods) |-> "<" \o mods[i] \o ">"]
        keys == {WrapKey(key) : key \in all_keys \ ComboSet(modifier_order)}
    IN  Join(modifiers \o Sorted(keys), "+")

\* HotkeyRecorder._validate_hotkey
validate_hotkey(all_keys) ==
    validate_hotkey_keys(all_keys,
                         Replace(format_keys_for_display(all_keys), " + ", "+"),
                         TRUE)

----------------------------------------------------------------------------
(* HotkeyRecorder: the state machine.                                      *)
(* held is the set of keys physically down and running_listeners counts    *)
(* the keyboard.Listener objects started and not stopped.  The other       *)
(* variables observe the current (or last) session: session is how far it  *)
(* got, events counts the key events its handlers processed while          *)
(* recording, by type and normalized name, press_after_release says        *)
(* whether one of its press events followed one of its release events,     *)
(* update_count and last_update are the on_update invocations and          *)
(* finish_calls lists the on_finish invocations.                           *)

\* the callbacks a caller may pass
UpdateCallbacks == {None, Some("on_update")}
FinishCallbacks == {None, Some("on_finish")}

\* what _get_key_name returns for the keys of the keyboard
KeyNames == {get_key_name(key) : key \in Keys}
EventKinds == {"press", "release"} \X KeyNames

NoEvents == [e \in EventKinds |-> 0]
Count(type, key_name) == events[<<type, key_name>>]
Logged(type, key_name) ==
    [events EXCEPT ![<<type, key_name>>] = @ + 1]

RECURSIVE SumOver(_, _)
SumOver(f, S) ==
    IF S = {} THEN 0
    ELSE LET x == CHOOSE y \in S : TRUE IN f[x] + SumOver(f, S \ {x})

EventCount == SumOver(events, EventKinds)

InitRecorder ==
    /\ recording = FALSE
    /\ pressed_keys = {}
    /\ released_keys = {}
    /\ all_pressed_keys = {}
    /\ recording_listener = None
    /\ on_update_callback = None
    /\ on_finish_callback = None
    /\ held = {}
    /\ running_listeners = 0
    /\ session = "none"
    /\ events = NoEvents
    /\ press_after_release = FALSE
    /\ update_count = 0
    /\ last_update = None
    /\ finish_calls = <<>>
    /\ invoked = {}
    /\ escaped = FALSE
    /\ last_call = "none"

\* start_recording without the test at line 35: a call during a session
\* starts over, with a further listener
StartRecording_Restart(on_update, on_finish) ==
    /\ recording' = TRUE
    /\ pressed_keys' = {}
    /\ released_keys' = {}
    /\ all_pressed_keys' = {}
    /\ on_update_callback' = on_update
    /\ on_finish_callback' = on_finish
    /\ recording_listener' = Some("listener")
    /\ running_listeners' = running_listeners + 1
    /\ session' = "active"
    /\ events' = NoEvents
    /\ press_after_release' = FALSE
    /\ update_count' = 0
    /\ last_update' = None
    /\ finish_calls' = <<>>
    /\ invoked' = {}
    /\ UNCHANGED <<held, escaped>>

\* HotkeyRecorder.start_recording
StartRecording(on_update, on_finish) ==
    /\ IF recording
       THEN UNCHANGED <<recording, pressed_keys, released_keys, all_pressed_keys,
                        recording_listener, on_update_callback, on_finish_callback,
                        running_listeners, session, events, press_after_release,
                        update_count, last_update, finish_calls, invoked>>
       ELSE /\ recording' = TRUE
            /\ pressed_keys' = {}
            /\ released_keys' = {}
            /\ all_pressed_keys' = {}
            /\ on_update_callback' = on_update
            /\ on_finish_callback' = on_finish
            /\ recording_listener' = Some("listener")
            /\ running_listeners' = running_listeners + 1
            /\ session' = "active"
            /\ events' = NoEvents
            /\ press_after_release' = FALSE
            /\ update_count' = 0
            /\ last_update' = None
            /\ finish_calls' = <<>>
            /\ invoked' = {}
    /\ UNCHANGED <<held, escaped>>

\* stop_recording without the three clear() calls
StopEffects_KeepsKeys ==
    /\ recording' = FALSE
    /\ recording_listener' = None
    /\ running_listeners' =
          IF recording_listener # None THEN running_listeners - 1
          ELSE running_listeners
    /\ UNCHANGED <<pressed_keys, released_keys, all_pressed_keys>>

\* stop_recording dropping the handle without stopping the listener
StopEffects_LeavesListener ==
    /\ recording' = FALSE
    /\ recording_listener' = None
    /\ running_listeners' = running_listeners
    /\ pressed_keys' = {}
    /\ released_keys' = {}
    /\ all_pressed_keys' = {}

\* the body of HotkeyRecorder.stop_recording (55-66)
StopEffects ==
    /\ recording' = FALSE
    /\ recording_listener' = None
    /\ running_listeners' =
          IF recording_listener # None THEN running_listeners - 1
          ELSE running_listeners
    /\ pressed_keys' = {}
    /\ released_keys' = {}
    /\ all_pressed_keys' = {}

\* HotkeyRecorder.stop_recording, called by the owner of the recorder
StopRecording ==
    /\ StopEffects
    /\ session' = IF session = "active" THEN "stopped" ELSE session
    /\ UNCHANGED <<on_update_callback, on_finish_callback, held, events,
                   press_after_release, update_count, last_update, finish_calls,
                   invoked, escaped>>

\* _notify_update telling on_update of the first key only
notifies_FirstKeyOnly(all_keys) ==
    on_update_callback # None /\ Cardinality(all_keys) = 1

\* whether HotkeyRecorder._notify_update invokes on_update, given the
\* ever-pressed set at the time of the call
notifies(all_keys) == on_update_callback # None /\ all_keys # {}

\* mutant: a rejected combination is dropped without telling the caller
finish_invocations_SilentOnError(all_keys) ==
    IF on_finish_callback = None \/ all_keys = {} THEN <<>>
    ELSE IF validate_hotkey(all_keys) # None THEN <<>>
    ELSE <<[hotkey_str |-> Some(generate_hotkey_string(all_keys)),
            error |-> None]>>

\* the on_finish invocations of HotkeyRecorder._finish_recording, given the
\* ever-pressed set at the time of the call
finish_invocations(all_keys) ==
    IF on_finish_callback = None THEN <<>>
    ELSE IF all_keys = {}
         THEN <<[hotkey_str |-> None,
                 error |-> Some(t("hotkey.recorder.error.no_key_detected"))]>>
    ELSE LET error == validate_hotkey(all_keys)
             hotkey_str == IF error # None THEN None
                           ELSE Some(generate_hotkey_string(all_keys))
         IN  <<[hotkey_str |-> hotkey_str, error |-> error]>>

\* callbacks that raise when they are called
FailingCallbacks == {Some("failing_on_update"), Some("failing_on_finish")}

\* the handlers with no try around the on_finish call
caught_at_FinishUnguarded(site) ==
    CASE site = "get_key_name" -> Some(142)
      [] site = "on_update" -> Some(152)
      [] OTHER -> None

\* the except clause of the key handlers that catches an exception raised at
\* a site: in _get_key_name (142), in _notify_update (152), in
\* _finish_recording around the on_finish call (198); None if none does
caught_at(site) ==
    CASE site = "get_key_name" -> Some(142)
      [] site = "on_update" -> Some(152)
      [] site = "on_finish" -> Some(198)
      [] OTHER -> None

\* an exception raised at site while raises holds leaves the handler
escapes(raises, site) == raises /\ caught_at(site) = None

\* HotkeyRecorder._finish_recording, given the ever-pressed set it reads
FinishRecording(all_keys) ==
    /\ StopEffects
    /\ session' = "finished"
    /\ finish_calls' = finish_calls \o finish_invocations(all_keys)
    /\ invoked' = IF on_finish_callback = None THEN invoked
                  ELSE invoked \cup {on_finish_callback[1]}
    /\ escaped' = (escaped \/ escapes(on_finish_callback \in FailingCallbacks,
                                       "on_finish"))
    /\ UNCHANGED <<on_update_callback, on_finish_callback>>

\* mutant: the session ends on the first key-up
SessionComplete_FirstRelease(all_keys, released) ==
    all_keys # {} /\ released # {}

\* the test at line 95 of _on_key_release
SessionComplete(all_keys, released) == all_keys # {} /\ all_keys = released

\* HotkeyRecorder._on_key_press
OnKeyPress(key) ==
    IF ~recording
    THEN UNCHANGED <<recording, pressed_keys, released_keys, all_pressed_keys,
                     recording_listener, on_update_callback, on_finish_callback,
                     running_listeners, session, events, press_after_release,
                     update_count, last_update, finish_calls, invoked, escaped>>
    ELSE LET key_name == get_key_name(key) IN
         /\ events' = Logged("press", key_name)
         /\ press_after_release' =
               (press_after_release
                  \/ \E n \in KeyNames : Count("release", n) > 0)
         /\ IF key_name # None
            THEN /\ pressed_keys' = pressed_keys \cup {key_name[1]}
                 /\ all_pressed_keys' = all_pressed_keys \cup {key_name[1]}
                 /\ IF notifies(all_pressed_keys \cup {key_name[1]})
                    THEN /\ update_count' = update_count + 1
                         /\ last_update' = Some(format_keys_for_display(
                                               all_pressed_keys \cup {key_name[1]}))
                         /\ invoked' = invoked \cup {on_update_callback[1]}
                         /\ escaped' =
                               (escaped
                                  \/ escapes(on_update_callback \in FailingCallbacks,
                                             "on_update"))
                    ELSE UNCHANGED <<update_count, last_update, invoked, escaped>>
            ELSE /\ escaped' = (escaped \/ escapes(key.kind = "KeyCode"
                                                      /\ key.vk = None,
                                                    "get_key_name"))
                 /\ UNCHANGED <<pressed_keys, all_pressed_keys, update_count,
                                last_update, invoked>>
         /\ UNCHANGED <<recording, released_keys, recording_listener,
                        on_update_callback, on_finish_callback,
                        running_listeners, session, finish_calls>>

\* HotkeyRecorder._on_key_release
OnKeyRelease(key) ==
    IF ~recording
    THEN UNCHANGED <<recording, pressed_keys, released_keys, all_pressed_keys,
                     recording_listener, on_update_callback, on_finish_callback,
                     running_listeners, session, events, press_after_release,
                     update_count, last_update, finish_calls, invoked, escaped>>
    ELSE LET key_name == get_key_name(key) IN
         /\ events' = Logged("release", key_name)
         /\ UNCHANGED <<press_after_release, update_count, last_update>>
         /\ IF key_name = None
            THEN /\ escaped' = (escaped \/ escapes(key.kind = "KeyCode"
                                                      /\ key.vk = None,
                                                    "get_key_name"))
                 /\ UNCHANGED <<recording, pressed_keys, released_keys,
                                all_pressed_keys, recording_listener,
                                on_update_callback, on_finish_callback,
                                running_listeners, session, finish_calls,
                                invoked>>
            ELSE IF SessionComplete(all_pressed_keys,
                                    released_keys \cup {key_name[1]})
                 THEN FinishRecording(all_pressed_keys)
            ELSE /\ released_keys' = released_keys \cup {key_name[1]}
                 /\ pressed_keys' = pressed_keys \ {key_name[1]}
                 /\ UNCHANGED <<recording, all_pressed_keys, recording_listener,
                                on_update_callback, on_finish_callback,
                                running_listeners, session, finish_calls,
                                invoked, escaped>>

\* a handler may still process one more event of this session
EventRoom == ~recording \/ EventCount < MaxEvents

\* a key that is up goes down: the listener thread runs _on_key_press
KeyDown(key) ==
    /\ EventRoom
    /\ key \notin held
    /\ held' = held \cup {key}
    /\ OnKeyPress(key)

\* a key that is down goes up: the listener thread runs _on_key_release
KeyUp(key) ==
    /\ EventRoom
    /\ key \in held
    /\ held' = held \ {key}
    /\ OnKeyRelease(key)

----------------------------------------------------------------------------
(* A run of the validator on one token set: validate_hotkey_keys as the    *)
(* recorder calls it, _generate_hotkey_string, then validate_hotkey_string *)
(* on the generated string, as HotkeyRunner.start calls it on the          *)
(* persisted value.                                                        *)

\* keys whose names the validator is run on
RecordableKeys ==
    {SpecialKey("ctrl_l"), SpecialKey("shift_r"), SpecialKey("alt_l"),
     SpecialKey("cmd"), SpecialKey("f4"),
     KeyCode(Some(65), Some("a")), KeyCode(Some(67), Some("c")),
     KeyCode(Some(107), Some("+")), KeyCode(Some(188), Some("<"))}

\* the tokens the recorder can put into a session set
RecordableTokens == {get_key_name(key)[1] : key \in RecordableKeys}

\* "win" is a modifier that only a persisted string can name
ValidatorTokens == RecordableTokens \cup {"win"}

InitValidatorIdle ==
    /\ v_keys = {}
    /\ v_detailed = FALSE
    /\ v_pc = "idle"
    /\ v_keys_error = None
    /\ v_hotkey_str = ""
    /\ v_str_error = None
    /\ v_display = ""

InitValidator ==
    /\ v_keys \in SUBSET ValidatorTokens
    /\ v_detailed \in BOOLEAN
    /\ v_pc = "start"
    /\ v_keys_error = None
    /\ v_hotkey_str = ""
    /\ v_str_error = None
    /\ v_display = ""

\* HotkeyRecorder._validate_hotkey on the set (detailed as the caller asks)
ValidateKeys ==
    /\ v_pc = "start"
    /\ v_keys_error' =
          validate_hotkey_keys(v_keys,
              Replace(format_keys_for_display(v_keys), " + ", "+"), v_detailed)
    /\ v_display' = format_keys_for_display(v_keys)
    /\ v_pc' = "validated"
    /\ UNCHANGED <<v_keys, v_detailed, v_hotkey_str, v_str_error>>

\* HotkeyRecorder._generate_hotkey_string on the set
GenerateString ==
    /\ v_pc = "validated"
    /\ v_hotkey_str' = generate_hotkey_string(v_keys)
    /\ v_pc' = "generated"
    /\ UNCHANGED <<v_keys, v_detailed, v_keys_error, v_str_error, v_display>>

\* HotkeyChecker.validate_hotkey_string on the generated string
ValidateString ==
    /\ v_pc = "generated"
    /\ v_str_error' = validate_hotkey_string(v_hotkey_str, v_detailed)
    /\ v_pc' = "done"
    /\ UNCHANGED <<v_keys, v_detailed, v_keys_error, v_hotkey_str, v_display>>

----------------------------------------------------------------------------
(* bytes and str.  The operators below work on a str or on a bytes object; *)
(* kind holds the constants of the type the argument has.                  *)

\* s.encode("ascii") for a str of the alphabet
Encode(s) == [i \in 1..Len(s) |-> Ord(CharAt(s, i))]

\* a byte that is valid neither as ASCII nor anywhere in UTF-8
HighByte == <<255>>

\* b.decode("ascii", errors="ignore") and b.decode("utf-8", errors="ignore")
\* for bytes made of ASCII bytes and HighByte: the invalid bytes are dropped
RECURSIVE Decode(_)
Decode(b) ==
    IF Len(b) = 0 THEN ""
    ELSE (IF b[1] < 128 THEN Chr(b[1]) ELSE "") \o Decode(Tail(b))

StrKind ==
    [empty |-> "", lf |-> "\n", cr |-> "\r", ws |-> Whitespace,
     colon |-> ":", comment |-> "<!--",
     start_anchor |-> "<!--StartFragment-->",
     end_anchor |-> "<!--EndFragment-->"]

BytesKind ==
    [empty |-> <<>>, lf |-> Encode("\n"), cr |-> Encode("\r"),
     ws |-> {Encode(w) : w \in Whitespace},
     colon |-> Encode(":"), comment |-> Encode("<!--"),
     start_anchor |-> Encode("<!--StartFragment-->"),
     end_anchor |-> Encode("<!--EndFragment-->")]

\* s.splitlines(): the lines of s without their line breaks; "\r\n" is one
\* break and a trailing break opens no further line
RECURSIVE SplitLines(_, _)
SplitLines(s, kind) ==
    IF Len(s) = 0 THEN <<>>
    ELSE LET breaks == {i \in 1..Len(s) : CharAt(s, i) \in {kind.lf, kind.cr}}
         IN  IF breaks = {} THEN <<s>>
             ELSE LET i == CHOOSE j \in breaks : \A k \in breaks : j <= k
                      skip == IF /\ CharAt(s, i) = kind.cr
                                 /\ i < Len(s)
                                 /\ CharAt(s, i + 1) = kind.lf
                              THEN 2 ELSE 1
                  IN  <<SubSeq(s, 1, i - 1)>>
                          \o SplitLines(SubSeq(s, i + skip, Len(s)), kind)

\* s.strip() for str or bytes
RECURSIVE StripOf(_, _)
StripOf(s, kind) ==
    IF Len(s) = 0 THEN s
    ELSE IF CharAt(s, 1) \in kind.ws THEN StripOf(Tail(s), kind)
    ELSE IF CharAt(s, Len(s)) \in kind.ws
         THEN StripOf(SubSeq(s, 1, Len(s) - 1), kind)
    ELSE s

\* s.startswith(prefix)
StartsWith(s, prefix) ==
    Len(s) >= Len(prefix) /\ SubSeq(s, 1, Len(prefix)) = prefix

\* s[a:b]: negative indices count from the end, both are clamped to the
\* length, and an empty or descending range gives the empty sequence
PySlice(s, a, b) ==
    LET n == Len(s)
        clamp(i) == IF i < 0 THEN (IF n + i < 0 THEN 0 ELSE n + i)
                    ELSE IF i > n THEN n ELSE i
        lo == clamp(a)
        hi == clamp(b)
    IN  IF lo >= hi THEN SubSeq(s, 1, 0) ELSE SubSeq(s, lo + 1, hi)

Digits == {"0", "1", "2", "3", "4", "5", "6", "7", "8", "9"}

\* str.isdigit()
IsDigit(s) == s # "" /\ \A i \in 1..Len(s) : CharAt(s, i) \in Digits

\* int(s) for s.isdigit()
RECURSIVE IntOfDigits(_)
IntOfDigits(s) ==
    IF s = "" THEN 0
    ELSE 10 * IntOfDigits(SubSeq(s, 1, Len(s) - 1))
            + (Ord(CharAt(s, Len(s))) - 48)

\* the part of an int literal after its sign
Unsigned(s) ==
    LET body == Strip(s)
    IN  IF body # "" /\ CharAt(body, 1) \in {"+", "-"} THEN Tail(body) ELSE body

\* whether int(s) returns: optional blanks and sign, then digits, with single
\* underscores allowed between digits; otherwise it raises ValueError
IntParses(s) ==
    LET u == Unsigned(s)
    IN  /\ u # ""
        /\ \A i \in 1..Len(u) : CharAt(u, i) \in Digits \cup {"_"}
        /\ CharAt(u, 1) # "_" /\ CharAt(u, Len(u)) # "_"
        /\ Find(u, "__") = 0

\* int(s) when it returns
IntOf(s) ==
    LET body == Strip(s)
        value == IntOfDigits(Replace(Unsigned(s), "_", ""))
    IN  IF body # "" /\ CharAt(body, 1) = "-" THEN 0 - value ELSE value

\* str(n) for n >= 0
RECURSIVE ToDecimal(_)
ToDecimal(n) ==
    IF n < 10 THEN Chr(48 + n)
    ELSE ToDecimal(n \div 10) \o Chr(48 + (n % 10))

----------------------------------------------------------------------------
(* The CF_HTML fragment extractor (utils/clipboard.py) *)

\* the lines the header loop reads: those before the first line that, once
\* stripped, starts with "<!--"  (the break at 171-172 and 225-226)
RECURSIVE HeaderLines(_, _)
HeaderLines(lines, kind) ==
    IF lines = <<>> THEN <<>>
    ELSE IF StartsWith(StripOf(lines[1], kind), kind.comment) THEN <<>>
    ELSE <<lines[1]>> \o HeaderLines(Tail(lines), kind)

\* line.split(":", 1)
SplitAtColon(line, kind) ==
    LET i == Find(line, kind.colon)
    IN  <<SubSeq(line, 1, i - 1), SubSeq(line, i + 1, Len(line))>>

\* the meta dict of the bytes variant (168-178), as the list of its
\* assignments in order
RECURSIVE MetaBytes(_)
MetaBytes(lines) ==
    IF lines = <<>> THEN <<>>
    ELSE LET raw_line == lines[1]
             kv == SplitAtColon(raw_line, BytesKind)
             key == Strip(Decode(kv[1]))
             val == Strip(Decode(kv[2]))
         IN  (IF Find(raw_line, BytesKind.colon) # 0 /\ key # ""
              THEN << <<key, val>> >> ELSE <<>>) \o MetaBytes(Tail(lines))

\* the meta dict of the text variant (223-229), as the list of its
\* assignments in order
RECURSIVE MetaText(_)
MetaText(lines) ==
    IF lines = <<>> THEN <<>>
    ELSE LET line == lines[1]
             kv == SplitAtColon(line, StrKind)
         IN  (IF Find(line, ":") # 0
              THEN << <<Strip(kv[1]), Strip(kv[2])>> >> ELSE <<>>)
                 \o MetaText(Tail(lines))

\* meta.get(key): the value last assigned to key, None if there is none
MetaGet(meta, key) ==
    LET hits == {i \in 1..Len(meta) : meta[i][1] = key}
    IN  IF hits = {} THEN None
        ELSE Some(meta[CHOOSE i \in hits : \A j \in hits : j <= i][2])

\* meta.get(key, default)
MetaGetOr(meta, key, default) ==
    IF MetaGet(meta, key) = None THEN default ELSE MetaGet(meta, key)[1]

\* re.search(r"<!--StartFragment-->(.*)<!--EndFragment-->", s, flags=re.S):
\* group 1 of the leftmost match, whose greedy .* runs to the last end
\* anchor; None when there is no match
AnchorMatch(s, kind) ==
    LET i == Find(s, kind.start_anchor)
        from == i + Len(kind.start_anchor)
        ends == {j \in from..(Len(s) - Len(kind.end_anchor) + 1) :
                    SubSeq(s, j, j + Len(kind.end_anchor) - 1) = kind.end_anchor}
    IN  IF i = 0 \/ ends = {} THEN None
        ELSE Some(SubSeq(s, from, (CHOOSE j \in ends : \A k \in ends : k <= j) - 1))

Returned(value) == [raised |-> FALSE, value |-> value]
Raised(what) == [raised |-> TRUE, value |-> what]

\* the offsets tier of the bytes variant (180-189): the fragment, or None
\* when the tier falls through
OffsetsTierBytes(cf_html_bytes, meta) ==
    LET sf == MetaGetOr(meta, "StartFragment", "")
        ef == MetaGetOr(meta, "EndFragment", "")
    IN  IF IsDigit(sf) /\ IsDigit(ef)
           /\ 0 <= IntOf(sf) /\ IntOf(sf) <= IntOf(ef)
           /\ IntOf(ef) <= Len(cf_html_bytes)
        THEN Some(Decode(PySlice(cf_html_bytes, IntOf(sf), IntOf(ef))))
        ELSE None

\* the StartHTML/EndHTML tier of the bytes variant (199-207)
HtmlTierBytes(cf_html_bytes, meta) ==
    LET start_html == MetaGetOr(meta, "StartHTML", "0")
        end_html == MetaGetOr(meta, "EndHTML", ToDecimal(Len(cf_html_bytes)))
        start == IF IsDigit(start_html) THEN IntOf(start_html) ELSE 0
        end == IF IsDigit(end_html) THEN IntOf(end_html) ELSE Len(cf_html_bytes)
    IN  IF 0 <= start /\ start <= end /\ end <= Len(cf_html_bytes)
        THEN Some(Decode(PySlice(cf_html_bytes, start, end)))
        ELSE None

\* _extract_html_fragment_bytes with the comment anchors tried before the
\* header offsets
extract_html_fragment_bytes_AnchorsFirst(cf_html_bytes) ==
    LET meta == MetaBytes(HeaderLines(SplitLines(cf_html_bytes, BytesKind),
                                      BytesKind))
        m == AnchorMatch(cf_html_bytes, BytesKind)
    IN  IF m # None THEN Returned(Decode(m[1]))
        ELSE IF OffsetsTierBytes(cf_html_bytes, meta) # None
        THEN Returned(OffsetsTierBytes(cf_html_bytes, meta)[1])
        ELSE IF HtmlTierBytes(cf_html_bytes, meta) # None
        THEN Returned(HtmlTierBytes(cf_html_bytes, meta)[1])
        ELSE Returned(Decode(cf_html_bytes))

\* _extract_html_fragment_bytes
extract_html_fragment_bytes(cf_html_bytes) ==
    LET meta == MetaBytes(HeaderLines(SplitLines(cf_html_bytes, BytesKind),
                                      BytesKind))
        m == AnchorMatch(cf_html_bytes, BytesKind)
    IN  IF OffsetsTierBytes(cf_html_bytes, meta) # None
        THEN Returned(OffsetsTierBytes(cf_html_bytes, meta)[1])
        ELSE IF m # None THEN Returned(Decode(m[1]))
        ELSE IF HtmlTierBytes(cf_html_bytes, meta) # None
        THEN Returned(HtmlTierBytes(cf_html_bytes, meta)[1])
        ELSE Returned(Decode(cf_html_bytes))

\* the offsets tier of the text variant (232-240): the slice never raises,
\* so the tier falls through only when the test at 234 fails
OffsetsTierText(cf_html, meta) ==
    LET sf == MetaGet(meta, "StartFragment")
        ef == MetaGet(meta, "EndFragment")
    IN  IF /\ sf # None /\ sf[1] # ""
           /\ ef # None /\ ef[1] # ""
           /\ IsDigit(sf[1]) /\ IsDigit(ef[1])
        THEN Some(PySlice(cf_html, IntOf(sf[1]), IntOf(ef[1])))
        ELSE None

\* the StartHTML/EndHTML tier of the text variant (248-253): the two int()
\* calls stand outside the try
HtmlTierText(cf_html, meta) ==
    LET start_html == MetaGetOr(meta, "StartHTML", "0")
        end_html == MetaGetOr(meta, "EndHTML", ToDecimal(Len(cf_html)))
    IN  IF ~IntParses(start_html) \/ ~IntParses(end_html)
        THEN Raised("ValueError")
        ELSE Returned(PySlice(cf_html, IntOf(start_html), IntOf(end_html)))

\* _extract_html_fragment
extract_html_fragment(cf_html) ==
    LET meta == MetaText(HeaderLines(SplitLines(cf_html, StrKind), StrKind))
        m == AnchorMatch(cf_html, StrKind)
    IN  IF OffsetsTierText(cf_html, meta) # None
        THEN Returned(OffsetsTierText(cf_html, meta)[1])
        ELSE IF m # None THEN Returned(m[1])
        ELSE HtmlTierText(cf_html, meta)

----------------------------------------------------------------------------
(* An extractor run: a CF_HTML container is built from a layout and given  *)
(* to one of the two variants.                                             *)

\* the value written after a header key: no line at all, an empty value,
\* text, a negative number, a literal int() accepts and isdigit() does not,
\* offsets inside the container, its exact length, an offset beyond it
FragmentOffsets == {"absent", "empty", "abc", "-01", "000", "050", "len", "999"}
StartHtmlOffsets == {"absent", "abc", "-01", "0_5", "050"}
EndHtmlOffsets == {"absent", "abc", "999"}

\* where the fragment comments stand in the payload
Bodies == {"own_line", "inline", "start_only", "none"}

\* the copied fragment X
Fragments == {"<b>hi</b>", "one\ntwo"}

Layouts ==
    [variant : {"text", "bytes"},
     start_html : StartHtmlOffsets, end_html : EndHtmlOffsets,
     start_fragment : FragmentOffsets, end_fragment : FragmentOffsets,
     body : Bodies, fragment : Fragments]

\* an offset as CF_HTML writes it, zero padded
Pad3(n) ==
    IF n < 10 THEN "00" \o ToDecimal(n)
    ELSE IF n < 100 THEN "0" \o ToDecimal(n)
    ELSE ToDecimal(n)

\* a header line; len is the container's length
HeaderField(key, offset, len) ==
    IF offset = "absent" THEN ""
    ELSE key \o ":"
             \o (IF offset = "empty" THEN ""
                 ELSE IF offset = "len" THEN Pad3(len) ELSE offset)
             \o "\r\n"

\* the container up to the fragment
Before(layout, len) ==
    "Version:0.9\r\n"
        \o HeaderField("StartHTML", layout.start_html, len)
        \o HeaderField("EndHTML", layout.end_html, len)
        \o HeaderField("StartFragment", layout.start_fragment, len)
        \o HeaderField("EndFragment", layout.end_fragment, len)
        \o (CASE layout.body = "own_line" ->
                    "<html>\r\n<body>\r\n<!--StartFragment-->"
              [] layout.body = "inline" ->
                    "<html xmlns:o='urn'><body><!--StartFragment-->"
              [] layout.body = "start_only" ->
                    "<html><body>\r\n<!--StartFragment-->"
              [] OTHER -> "<html><body>")

\* the container after the fragment
After(layout) ==
    CASE layout.body = "own_line" -> "<!--EndFragment-->\r\n</body>\r\n</html>"
      [] layout.body = "inline" -> "<!--EndFragment--></body></html>"
      [] OTHER -> "</body></html>"

\* the fragment as the container holds it: in a bytes container it ends
\* with a byte that is not valid UTF-8, followed by "!"
FragmentOf(layout) ==
    IF layout.variant = "text" THEN layout.fragment
    ELSE Encode(layout.fragment) \o HighByte \o Encode("!")

Build(layout, len) ==
    IF layout.variant = "text"
    THEN Before(layout, len) \o FragmentOf(layout) \o After(layout)
    ELSE Encode(Before(layout, len)) \o FragmentOf(layout)
             \o Encode(After(layout))

\* the container of a layout; every offset it writes is three characters
\* wide, so its length does not depend on the length it writes
Container(layout) == Build(layout, Len(Build(layout, 0)))

InitExtractorIdle ==
    /\ x_layout = [variant |-> "none"]
    /\ x_input = None
    /\ x_pc = "idle"
    /\ x_outcome = None

InitExtractor ==
    /\ x_layout \in Layouts
    /\ x_input = Container(x_layout)
    /\ x_pc = "start"
    /\ x_outcome = None

\* _try_read_cf_html hands the clipboard's bytes to the bytes variant
ExtractBytes ==
    /\ x_pc = "start"
    /\ x_layout.variant = "bytes"
    /\ x_outcome' = extract_html_fragment_bytes(x_input)
    /\ x_pc' = "done"
    /\ UNCHANGED <<x_layout, x_input>>

\* a container that is already a str goes to the text variant
ExtractText ==
    /\ x_pc = "start"
    /\ x_layout.variant = "text"
    /\ x_outcome' = extract_html_fragment(x_input)
    /\ x_pc' = "done"
    /\ UNCHANGED <<x_layout, x_input>>

----------------------------------------------------------------------------
(* The clipboard poller (utils/clipboard.py, _try_read_cf_html) *)

WaitValues == -1..MaxWait
IntervalValues == -1..MaxInterval

\* what wc.GetClipboardData(fmt) does: raise, return None, return the data
GetResults == {"raises", "none", "data"}

\* the CF_HTML data on the clipboard
ClipboardData == "CF_HTML"

\* the interval taken as it comes
interval_s_Unclamped(interval_ms) == interval_ms

\* max(1, interval_ms), the sleep between attempts in ms
interval_s(interval_ms) == IF interval_ms < 1 THEN 1 ELSE interval_ms

\* the loop body giving up on the first exception
attempt_AbortOnError(opens, checks, available, get) ==
    IF ~opens
    THEN [did |-> "open_raises", returns |-> TRUE, value |-> None,
          error |-> Some("OpenClipboard")]
    ELSE IF ~checks
    THEN [did |-> "check_raises", returns |-> TRUE, value |-> None,
          error |-> Some("IsClipboardFormatAvailable")]
    ELSE IF ~available
    THEN [did |-> "unavailable", returns |-> TRUE, value |-> None,
          error |-> None]
    ELSE IF get = "data"
    THEN [did |-> "data", returns |-> TRUE, value |-> Some(ClipboardData),
          error |-> None]
    ELSE [did |-> "get_raises", returns |-> TRUE, value |-> None,
          error |-> Some("GetClipboardData")]

\* one pass through the loop body (45-77): opens, checks and get say what
\* OpenClipboard, IsClipboardFormatAvailable and GetClipboardData do (FALSE:
\* the call raises), available is what the availability check reports.
\* The result says what the attempt did, whether the function returns, the
\* value it returns and the error it remembers.
attempt(opens, checks, available, get) ==
    IF ~opens
    THEN [did |-> "open_raises", returns |-> FALSE, value |-> None,
          error |-> Some("OpenClipboard")]
    ELSE IF ~checks
    THEN [did |-> "check_raises", returns |-> FALSE, value |-> None,
          error |-> Some("IsClipboardFormatAvailable")]
    ELSE IF ~available
    THEN [did |-> "unavailable", returns |-> TRUE, value |-> None,
          error |-> None]
    ELSE IF get = "raises"
    THEN [did |-> "get_raises", returns |-> FALSE, value |-> None,
          error |-> Some("GetClipboardData")]
    ELSE IF get = "none"
    THEN [did |-> "data_none", returns |-> FALSE, value |-> None,
          error |-> Some("CF_HTML data is None")]
    ELSE [did |-> "data", returns |-> TRUE, value |-> Some(ClipboardData),
          error |-> None]

\* the loop body with CloseClipboard in a finally clause that also covers
\* OpenClipboard
clipboard_calls_CloseAlways(opens, closes) ==
    <<IF opens THEN "open" ELSE "open_raises",
      IF closes THEN "close" ELSE "close_raises">>

\* the OpenClipboard and CloseClipboard calls of one pass through the loop
\* body: a failed OpenClipboard goes to the sleep (45-50); after a
\* successful one the finally clause calls CloseClipboard once, and what it
\* raises is dropped (71-75)
clipboard_calls(opens, closes) ==
    IF ~opens THEN <<"open_raises">>
    ELSE <<"open", IF closes THEN "close" ELSE "close_raises">>

InitPollerIdle ==
    /\ p_wait_ms = 0 /\ p_interval_ms = 0
    /\ p_deadline = 0 /\ p_interval = 0
    /\ p_last_error = None
    /\ p_pc = "idle"
    /\ p_result = None
    /\ p_now = 0
    /\ p_starts = <<>> /\ p_outcomes = <<>> /\ p_calls = <<>>
    /\ clip_available = FALSE
    /\ clip_rendered_at = None

InitPoller ==
    /\ p_wait_ms \in WaitValues /\ p_interval_ms \in IntervalValues
    /\ p_deadline = 0 /\ p_interval = 0
    /\ p_last_error = None
    /\ p_pc = "call"
    /\ p_result = None
    /\ p_now = 0
    /\ p_starts = <<>> /\ p_outcomes = <<>> /\ p_calls = <<>>
    /\ clip_available \in BOOLEAN
    /\ clip_rendered_at = None

\* lines 35-42: RegisterClipboardFormat, then the deadline and the interval
PollCall(registers) ==
    /\ p_pc = "call"
    /\ IF registers
       THEN /\ p_deadline' = p_now + p_wait_ms
            /\ p_interval' = interval_s(p_interval_ms)
            /\ p_pc' = "loop"
       ELSE /\ p_pc' = "returned"
            /\ UNCHANGED <<p_deadline, p_interval>>
    /\ UNCHANGED <<p_wait_ms, p_interval_ms, p_last_error, p_result, p_now,
                   p_starts, p_outcomes, p_calls, clip_available,
                   clip_rendered_at>>

\* line 44, the loop condition, and 79-81 when it fails
LoopTest ==
    /\ p_pc = "loop"
    /\ IF p_now < p_deadline
       THEN /\ p_pc' = "body"
            /\ p_starts' = Append(p_starts, p_now)
       ELSE /\ p_pc' = "returned"
            /\ UNCHANGED p_starts
    /\ UNCHANGED <<p_wait_ms, p_interval_ms, p_deadline, p_interval,
                   p_last_error, p_result, p_now, p_outcomes, p_calls,
                   clip_available, clip_rendered_at>>

\* lines 45-77: one attempt, the CloseClipboard of the finally clause (its
\* exception is swallowed) and, unless the function returns, the sleep; the
\* calls and the sleep together overrun by delay
Attempt(opens, checks, get, closes, delay) ==
    LET a == attempt(opens, checks, clip_available, get)
    IN  /\ p_pc = "body"
        /\ p_outcomes' = Append(p_outcomes, a.did)
        /\ p_calls' = p_calls \o clipboard_calls(opens, closes)
        /\ p_last_error' = IF a.error = None THEN p_last_error ELSE a.error
        /\ IF a.returns
           THEN /\ p_pc' = "returned"
                /\ p_result' = a.value
                /\ p_now' = p_now + delay
           ELSE /\ p_pc' = "loop"
                /\ p_result' = p_result
                /\ p_now' = p_now + p_interval + delay
        /\ UNCHANGED <<p_wait_ms, p_interval_ms, p_deadline, p_interval,
                       p_starts, clip_available, clip_rendered_at>>

\* the clipboard's owner renders the delayed HTML format
Render ==
    /\ p_pc # "idle"
    /\ ~clip_available
    /\ clip_available' = TRUE
    /\ clip_rendered_at' = Some(p_now)
    /\ UNCHANGED <<p_wait_ms, p_interval_ms, p_deadline, p_interval,
                   p_last_error, p_pc, p_result, p_now, p_starts, p_outcomes,
                   p_calls>>

\* the steps of the call
PollStep ==
    \/ \E registers \in BOOLEAN : PollCall(registers)
    \/ LoopTest
    \/ \E opens \in BOOLEAN, checks \in BOOLEAN, get \in GetResults,
          closes \in BOOLEAN, delay \in 0..MaxDelay :
          Attempt(opens, checks, get, closes, delay)

----------------------------------------------------------------------------
(* Markdown files on the clipboard (utils/clipboard.py 403-551).  m_clip   *)
(* is the CF_HDROP file list on the clipboard and m_fs says what each of   *)
(* its paths is on disk; m_platform is sys.platform.  m_all_files and      *)
(* m_md_files are the locals of get_markdown_files_from_clipboard,         *)
(* m_next the position of the reading loop in md_files, m_processed the    *)
(* paths the loop has handled, in order.                                   *)

\* sys.platform
Platforms == {"win32", "darwin", "linux"}

\* paths a file list can hold
ClipboardPaths ==
    {"C:\\d\\b.md", "C:\\d\\A.MD", "C:\\e\\a.md", "C:\\d\\c.Markdown",
     "C:\\d\\n.md.txt"}

\* what a path is on disk: nothing, a directory, or a file that is UTF-8
\* text, GBK text that is not valid UTF-8, bytes that no codec of the chain
\* decodes, or one that cannot be opened
FileKinds == {"missing", "dir", "utf-8", "gbk", "undecodable", "denied"}

\* the sequences of at most n distinct elements of S
RECURSIVE DistinctSeqs(_, _)
DistinctSeqs(S, n) ==
    IF n = 0 THEN {<<>>}
    ELSE LET shorter == DistinctSeqs(S, n - 1)
             longest == {q \in shorter : Len(q) = n - 1}
         IN  shorter \cup
                 {Append(p[1], p[2]) :
                     p \in {pp \in longest \X S :
                               \A i \in 1..(n - 1) : pp[1][i] # pp[2]}}

\* os.path.isfile
isfile(fs, path) == fs[path] \notin {"missing", "dir"}

\* s.endswith(suffixes) for a tuple of suffixes
EndsWith(s, suffixes) ==
    \E i \in 1..Len(suffixes) :
        /\ Len(s) >= Len(suffixes[i])
        /\ SubSeq(s, Len(s) - Len(suffixes[i]) + 1, Len(s)) = suffixes[i]

md_extensions == <<".md", ".markdown">>

\* os.path.basename of a Windows path: what follows the last separator
basename(path) ==
    LET seps == {i \in 1..Len(path) : CharAt(path, i) \in {"\\", "/", ":"}}
    IN  IF seps = {} THEN path
        ELSE SubSeq(path, (CHOOSE i \in seps : \A j \in seps : j <= i) + 1,
                    Len(path))

\* the filter of get_markdown_files_from_clipboard (469-472)
is_markdown_file_CaseSensitive(fs, f) ==
    isfile(fs, f) /\ EndsWith(f, md_extensions)

is_markdown_file(fs, f) ==
    isfile(fs, f) /\ EndsWith(Lower(f), md_extensions)

\* [f for f in all_files if cond(f)]
RECURSIVE FilterMarkdown(_, _)
FilterMarkdown(fs, all_files) ==
    IF all_files = <<>> THEN <<>>
    ELSE (IF is_markdown_file(fs, all_files[1])
          THEN <<all_files[1]>> ELSE <<>>)
             \o FilterMarkdown(fs, Tail(all_files))

\* the key of md_files.sort (475)
sort_key(x) == Lower(basename(x))

\* list.sort(key=...): stable, by insertion
RECURSIVE InsertByKey(_, _)
InsertByKey(sorted, x) ==
    IF sorted = <<>> THEN <<x>>
    ELSE LET last == sorted[Len(sorted)]
         IN  IF StrLess(sort_key(x), sort_key(last))
             THEN Append(InsertByKey(SubSeq(sorted, 1, Len(sorted) - 1), x),
                         last)
             ELSE Append(sorted, x)

RECURSIVE SortByKey(_)
SortByKey(files) ==
    IF files = <<>> THEN <<>>
    ELSE InsertByKey(SortByKey(SubSeq(files, 1, Len(files) - 1)),
                     files[Len(files)])

\* get_clipboard_files (403-433): the file list, or [] when the clipboard
\* could not be opened in three attempts
get_clipboard_files(clip, opened) == IF opened THEN clip ELSE <<>>

\* get_markdown_files_from_clipboard (448-478): all_files and md_files
all_files_of(platform, clip, opened) ==
    IF platform = "win32" THEN get_clipboard_files(clip, opened) ELSE <<>>

get_markdown_files_from_clipboard(fs, all_files) ==
    SortByKey(FilterMarkdown(fs, all_files))

encodings == <<"utf-8", "gbk", "gb2312", "utf-8-sig">>

\* open(file_path, "r", encoding=encoding) and f.read() (500-509)
open_and_read(kind, encoding) ==
    CASE kind = "utf-8" /\ encoding \in {"utf-8", "utf-8-sig"} -> "ok"
      [] kind = "gbk" /\ encoding \in {"gbk"} -> "ok"
      [] kind \in {"utf-8", "gbk", "undecodable"} -> "UnicodeDecodeError"
      [] OTHER -> "OSError"

\* the text of a file
content_of(path) == "# " \o basename(path)

\* read_file_with_encoding (481-514)
read_file_with_encoding(fs, file_path) ==
    IF \E i \in 1..Len(encodings) : open_and_read(fs[file_path], encodings[i]) = "ok"
    THEN Returned(content_of(file_path))
    ELSE Raised("Failed to read file '" \o file_path
                    \o "' with any supported encoding: "
                    \o "['utf-8', 'gbk', 'gb2312', 'utf-8-sig']")

InitMarkdownIdle ==
    /\ m_platform = "win32"
    /\ m_clip = <<>>
    /\ m_fs = [path \in ClipboardPaths |-> "missing"]
    /\ m_pc = "idle"
    /\ m_all_files = <<>>
    /\ m_md_files = <<>>
    /\ m_next = 1
    /\ m_processed = <<>>
    /\ m_files_data = <<>>
    /\ m_errors = <<>>
    /\ m_result = None

\* a call of read_markdown_files_from_clipboard, on any platform, with any
\* file list of at most MaxFiles distinct paths and any disk
InitMarkdown ==
    /\ m_platform \in Platforms
    /\ m_clip \in DistinctSeqs(ClipboardPaths, MaxFiles)
    /\ m_fs \in [ClipboardPaths -> FileKinds]
    /\ \A path \in ClipboardPaths :
          (\A i \in 1..Len(m_clip) : m_clip[i] # path) => m_fs[path] = "missing"
    /\ m_pc = "start"
    /\ m_all_files = <<>>
    /\ m_md_files = <<>>
    /\ m_next = 1
    /\ m_processed = <<>>
    /\ m_files_data = <<>>
    /\ m_errors = <<>>
    /\ m_result = None

\* read_markdown_files_from_clipboard up to the loop (530-536)
ReadCall(opened) ==
    /\ m_pc = "start"
    /\ m_all_files' = all_files_of(m_platform, m_clip, opened)
    /\ m_md_files' = get_markdown_files_from_clipboard(m_fs, m_all_files')
    /\ IF m_md_files' = <<>>
       THEN /\ m_result' = Some(<<FALSE, <<>>, <<>> >>)
            /\ m_pc' = "done"
       ELSE /\ m_result' = None
            /\ m_pc' = "loop"
    /\ UNCHANGED <<m_platform, m_clip, m_fs, m_next, m_processed,
                   m_files_data, m_errors>>

\* one round of the loop (538-548)
ReadFile ==
    /\ m_pc = "loop"
    /\ m_next <= Len(m_md_files)
    /\ LET file_path == m_md_files[m_next]
           filename == basename(file_path)
           read == read_file_with_encoding(m_fs, file_path)
       IN  /\ IF read.raised
              THEN /\ m_errors' = Append(m_errors, <<filename, read.value>>)
                   /\ UNCHANGED m_files_data
              ELSE /\ m_files_data' =
                          Append(m_files_data, <<filename, read.value>>)
                   /\ UNCHANGED m_errors
           /\ m_processed' = Append(m_processed, file_path)
    /\ m_next' = m_next + 1
    /\ UNCHANGED <<m_platform, m_clip, m_fs, m_pc, m_all_files, m_md_files,
                   m_result>>

\* the return after the loop (551)
ReadReturn ==
    /\ m_pc = "loop"
    /\ m_next > Len(m_md_files)
    /\ m_result' = Some(<<Len(m_files_data) > 0, m_files_data, m_errors>>)
    /\ m_pc' = "done"
    /\ UNCHANGED <<m_platform, m_clip, m_fs, m_all_files, m_md_files, m_next,
                   m_processed, m_files_data, m_errors>>

----------------------------------------------------------------------------
(* HotkeyRecorder with its two threads (recorder.py 53-102, 146-199): the  *)
(* thread that called start_recording calls stop_recording while the       *)
(* listener thread runs _on_key_press and _on_key_release, one event at a  *)
(* time.  Each step below is one statement of the code; the threads        *)
(* interleave between statements.  rc_recording .. rc_on_finish are the    *)
(* recorder's fields and rc_running says whether the listener still        *)
(* delivers events.  rc_pc is the listener thread's position (at) and,     *)
(* inside the stop_recording that _finish_recording calls, the position in *)
(* it (stop); rc_key, rc_display, rc_error and rc_hotkey_str are the       *)
(* handler's locals.  rc_stop_pc is the caller's position in               *)
(* stop_recording.  rc_late holds the callbacks invoked after the caller's *)
(* stop_recording returned and rc_finish the arguments of the last         *)
(* on_finish invocation.                                                   *)

\* the keys of the keyboard in the two-thread runs
RaceKeys == {KeyAltL, KeyA}

\* the statements of stop_recording (55-66), in order
StopLabels == <<"rec", "test", "stop", "none", "clear_p", "clear_r", "clear_a">>

\* the statement after statement at of stop_recording; "ret" is the return
StopNext(at) ==
    CASE at = "rec" -> "test"
      [] at = "test" -> IF rc_listener # None THEN "stop" ELSE "clear_p"
      [] at = "stop" -> "none"
      [] at = "none" -> "clear_p"
      [] at = "clear_p" -> "clear_r"
      [] at = "clear_r" -> "clear_a"
      [] OTHER -> "ret"

\* the effect of statement at of stop_recording on the recorder's fields;
\* listener.stop() on a field that the other thread has set to None raises
\* AttributeError, which line 59 catches
StopStatement(at) ==
    /\ rc_recording' = IF at = "rec" THEN FALSE ELSE rc_recording
    /\ rc_running' =
          IF at = "stop" /\ rc_listener # None THEN FALSE ELSE rc_running
    /\ rc_listener' = IF at = "none" THEN None ELSE rc_listener
    /\ rc_pressed_keys' = IF at = "clear_p" THEN {} ELSE rc_pressed_keys
    /\ rc_released_keys' = IF at = "clear_r" THEN {} ELSE rc_released_keys
    /\ rc_all_pressed_keys' =
          IF at = "clear_a" THEN {} ELSE rc_all_pressed_keys

At(label) == [at |-> label, stop |-> "-"]

InitRaceIdle ==
    /\ rc_recording = FALSE
    /\ rc_pressed_keys = {}
    /\ rc_released_keys = {}
    /\ rc_all_pressed_keys = {}
    /\ rc_listener = None
    /\ rc_running = FALSE
    /\ rc_on_update = None
    /\ rc_on_finish = None
    /\ rc_pc = At("idle")
    /\ rc_key = None
    /\ rc_display = ""
    /\ rc_error = None
    /\ rc_hotkey_str = None
    /\ rc_stop_pc = "idle"
    /\ rc_late = {}
    /\ rc_finish = None

rcFields ==
    <<rc_recording, rc_pressed_keys, rc_released_keys, rc_all_pressed_keys,
      rc_listener, rc_running>>
rcCallbacks == <<rc_on_update, rc_on_finish>>
rcLocals == <<rc_key, rc_display, rc_error, rc_hotkey_str>>
rcObserved == <<rc_late, rc_finish>>

\* start_recording (23-51), before the listener thread exists
RaceStart ==
    /\ ~rc_recording /\ rc_stop_pc = "idle" /\ rc_on_finish = None
    /\ rc_recording' = TRUE
    /\ rc_pressed_keys' = {}
    /\ rc_released_keys' = {}
    /\ rc_all_pressed_keys' = {}
    /\ rc_on_update' = Some("on_update")
    /\ rc_on_finish' = Some("on_finish")
    /\ rc_listener' = Some("listener")
    /\ rc_running' = TRUE
    /\ UNCHANGED <<rc_pc, rcLocals, rc_stop_pc, rcObserved>>

\* the caller enters stop_recording
StopCall ==
    /\ rc_stop_pc = "idle" /\ rc_on_finish # None
    /\ rc_stop_pc' = "rec"
    /\ UNCHANGED <<rcFields, rcCallbacks, rc_pc, rcLocals, rcObserved>>

\* the caller executes one statement of stop_recording (55-67)
StopThreadStep ==
    /\ rc_stop_pc \notin {"idle", "returned"}
    /\ StopStatement(rc_stop_pc)
    /\ rc_stop_pc' =
          IF StopNext(rc_stop_pc) = "ret" THEN "returned"
          ELSE StopNext(rc_stop_pc)
    /\ UNCHANGED <<rcCallbacks, rc_pc, rcLocals, rcObserved>>

\* the listener thread takes a key event and enters the handler
Deliver(type, key) ==
    /\ rc_running /\ rc_pc = At("idle")
    /\ rc_pc' = At(IF type = "press" THEN "p_check" ELSE "r_check")
    /\ rc_key' = get_key_name(key)
    /\ UNCHANGED <<rcFields, rcCallbacks, rc_display, rc_error,
                   rc_hotkey_str, rc_stop_pc, rcObserved>>

\* a callback is being invoked: it is late if the caller's stop_recording
\* has returned
Invoked(callback) ==
    rc_late' = IF rc_stop_pc = "returned" THEN rc_late \cup {callback}
               ELSE rc_late

\* one statement of _on_key_press with _notify_update (69-81, 146-153)
PressStep ==
    \/ /\ rc_pc = At("p_check")
       /\ rc_pc' = IF rc_recording /\ rc_key # None THEN At("p_add_pressed")
                   ELSE At("idle")
       /\ UNCHANGED <<rcFields, rcCallbacks, rcLocals, rc_stop_pc, rcObserved>>
    \/ /\ rc_pc = At("p_add_pressed")
       /\ rc_pressed_keys' = rc_pressed_keys \cup {rc_key[1]}
       /\ rc_pc' = At("p_add_all")
       /\ UNCHANGED <<rc_recording, rc_released_keys, rc_all_pressed_keys,
                      rc_listener, rc_running, rcCallbacks, rcLocals,
                      rc_stop_pc, rcObserved>>
    \/ /\ rc_pc = At("p_add_all")
       /\ rc_all_pressed_keys' = rc_all_pressed_keys \cup {rc_key[1]}
       /\ rc_pc' = At("p_notify")
       /\ UNCHANGED <<rc_recording, rc_pressed_keys, rc_released_keys,
                      rc_listener, rc_running, rcCallbacks, rcLocals,
                      rc_stop_pc, rcObserved>>
    \/ /\ rc_pc = At("p_notify")
       /\ IF rc_on_update # None /\ rc_all_pressed_keys # {}
          THEN /\ rc_display' = format_keys_for_display(rc_all_pressed_keys)
               /\ rc_pc' = At("p_call")
          ELSE /\ rc_pc' = At("idle")
               /\ UNCHANGED rc_display
       /\ UNCHANGED <<rcFields, rcCallbacks, rc_key, rc_error, rc_hotkey_str,
                      rc_stop_pc, rcObserved>>
    \/ /\ rc_pc = At("p_call")
       /\ Invoked("on_update")
       /\ rc_pc' = At("idle")
       /\ UNCHANGED <<rcFields, rcCallbacks, rcLocals, rc_stop_pc, rc_finish>>

\* one statement of _on_key_release (83-102) up to the call of
\* _finish_recording; returning False stops the listener
ReleaseStep ==
    \/ /\ rc_pc = At("r_check")
       /\ IF ~rc_recording
          THEN rc_pc' = At("idle") /\ rc_running' = FALSE
          ELSE /\ rc_pc' = IF rc_key # None THEN At("r_add_released")
                           ELSE At("idle")
               /\ UNCHANGED rc_running
       /\ UNCHANGED <<rc_recording, rc_pressed_keys, rc_released_keys,
                      rc_all_pressed_keys, rc_listener, rcCallbacks, rcLocals,
                      rc_stop_pc, rcObserved>>
    \/ /\ rc_pc = At("r_add_released")
       /\ rc_released_keys' = rc_released_keys \cup {rc_key[1]}
       /\ rc_pc' = At("r_discard")
       /\ UNCHANGED <<rc_recording, rc_pressed_keys, rc_all_pressed_keys,
                      rc_listener, rc_running, rcCallbacks, rcLocals,
                      rc_stop_pc, rcObserved>>
    \/ /\ rc_pc = At("r_discard")
       /\ rc_pressed_keys' = rc_pressed_keys \ {rc_key[1]}
       /\ rc_pc' = At("r_test")
       /\ UNCHANGED <<rc_recording, rc_released_keys, rc_all_pressed_keys,
                      rc_listener, rc_running, rcCallbacks, rcLocals,
                      rc_stop_pc, rcObserved>>
    \/ /\ rc_pc = At("r_test")
       /\ rc_pc' = IF rc_all_pressed_keys # {}
                        /\ rc_all_pressed_keys = rc_released_keys
                   THEN At("f_test") ELSE At("idle")
       /\ UNCHANGED <<rcFields, rcCallbacks, rcLocals, rc_stop_pc, rcObserved>>

\* one statement of _finish_recording (176-199), the statements of the
\* stop_recording it calls included; afterwards _on_key_release returns
\* False, which stops the listener
FinishStep ==
    \/ /\ rc_pc = At("f_test")
       /\ rc_pc' = IF rc_all_pressed_keys = {}
                   THEN [at |-> "f_call_none", stop |-> "rec"]
                   ELSE At("f_validate")
       /\ UNCHANGED <<rcFields, rcCallbacks, rcLocals, rc_stop_pc, rcObserved>>
    \/ /\ rc_pc = At("f_validate")
       /\ rc_error' = validate_hotkey(rc_all_pressed_keys)
       /\ rc_pc' = At("f_generate")
       /\ UNCHANGED <<rcFields, rcCallbacks, rc_key, rc_display,
                      rc_hotkey_str, rc_stop_pc, rcObserved>>
    \/ /\ rc_pc = At("f_generate")
       /\ rc_hotkey_str' =
             IF rc_error # None THEN None
             ELSE Some(generate_hotkey_string(rc_all_pressed_keys))
       /\ rc_pc' = [at |-> "f_call", stop |-> "rec"]
       /\ UNCHANGED <<rcFields, rcCallbacks, rc_key, rc_display, rc_error,
                      rc_stop_pc, rcObserved>>
    \/ /\ rc_pc.stop # "-"
       /\ StopStatement(rc_pc.stop)
       /\ rc_pc' = [rc_pc EXCEPT !.stop = IF StopNext(rc_pc.stop) = "ret"
                                          THEN "-" ELSE StopNext(rc_pc.stop)]
       /\ UNCHANGED <<rcCallbacks, rcLocals, rc_stop_pc, rcObserved>>
    \/ /\ rc_pc = At("f_call_none")
       /\ Invoked("on_finish")
       /\ rc_finish' =
             Some([hotkey_str |-> None,
                   error |-> Some(t("hotkey.recorder.error.no_key_detected"))])
       /\ rc_pc' = At("idle")
       /\ rc_running' = FALSE
       /\ UNCHANGED <<rc_recording, rc_pressed_keys, rc_released_keys,
                      rc_all_pressed_keys, rc_listener, rcCallbacks, rcLocals,
                      rc_stop_pc>>
    \/ /\ rc_pc = At("f_call")
       /\ Invoked("on_finish")
       /\ rc_finish' = Some([hotkey_str |-> rc_hotkey_str, error |-> rc_error])
       /\ rc_pc' = At("idle")
       /\ rc_running' = FALSE
       /\ UNCHANGED <<rc_recording, rc_pressed_keys, rc_released_keys,
                      rc_all_pressed_keys, rc_listener, rcCallbacks, rcLocals,
                      rc_stop_pc>>

----------------------------------------------------------------------------
(* HotkeyRunner.start (presentation/hotkey/run.py 26-90).  h_configured is *)
(* app_state.hotkey_str at the call, h_hotkey_str and h_config_hotkey are  *)
(* app_state.hotkey_str and app_state.config["hotkey"], h_config_loader    *)
(* and h_notification_manager the runner's collaborators (None when not    *)
(* given), h_hotkey and h_error the locals.  h_binds lists the calls of    *)
(* hotkey_manager.bind with what app_state held at the call, h_saves the   *)
(* calls of config_loader.save, h_notifications the titles notified, and   *)
(* h_bound is the hotkey bound, if any.                                    *)

\* DEFAULT_CONFIG["hotkey"]
DEFAULT_HOTKEY == "<ctrl>+<shift>+b"

\* hotkey strings a config file may hold
ConfiguredHotkeys ==
    {DEFAULT_HOTKEY, "<ctrl>+<alt>+v", "<ctrl>+c", "<shift>+a", "<ctrl>", "a",
     ""}

InitRunnerIdle ==
    /\ h_configured = DEFAULT_HOTKEY
    /\ h_hotkey_str = DEFAULT_HOTKEY
    /\ h_config_hotkey = DEFAULT_HOTKEY
    /\ h_config_loader = None
    /\ h_notification_manager = None
    /\ h_pc = "idle"
    /\ h_hotkey = ""
    /\ h_error = None
    /\ h_binds = <<>>
    /\ h_saves = <<>>
    /\ h_notifications = <<>>
    /\ h_bound = None

\* a call of start with any configured hotkey, with or without the
\* collaborators
InitRunner ==
    /\ h_configured \in ConfiguredHotkeys
    /\ h_hotkey_str = h_configured
    /\ h_config_hotkey = h_configured
    /\ h_config_loader \in {None, Some("config_loader")}
    /\ h_notification_manager \in {None, Some("notification_manager")}
    /\ h_pc = "start"
    /\ h_hotkey = ""
    /\ h_error = None
    /\ h_binds = <<>>
    /\ h_saves = <<>>
    /\ h_notifications = <<>>
    /\ h_bound = None

\* a call of hotkey_manager.bind and whether it returned
BindCall(hotkey, returns, hotkey_str, config_hotkey) ==
    [hotkey |-> hotkey, returns |-> returns, hotkey_str |-> hotkey_str,
     config_hotkey |-> config_hotkey]

\* a call of config_loader.save and whether it returned
SaveCall(config_hotkey, returns) ==
    [hotkey |-> config_hotkey, returns |-> returns]

\* notification_manager.notify(title, ...), when a manager is given
notify(title) ==
    IF h_notification_manager # None THEN Append(h_notifications, title)
    ELSE h_notifications

\* the hotkey that start goes on with after the validation (28-39), without
\* the reset
hotkey_after_validation_Configured(error, configured) == configured

hotkey_after_validation(error, configured) ==
    IF error # None THEN DEFAULT_HOTKEY ELSE configured

\* validation of the configured hotkey and the reset to the default (28-54)
StartValidate(save_returns) ==
    /\ h_pc = "start"
    /\ h_error' = validate_hotkey_string(h_hotkey_str, FALSE)
    /\ IF h_error' # None
       THEN /\ h_hotkey_str' = DEFAULT_HOTKEY
            /\ h_config_hotkey' = DEFAULT_HOTKEY
            /\ h_hotkey' = hotkey_after_validation(h_error', h_hotkey_str)
            /\ h_saves' =
                  IF h_config_loader # None
                  THEN Append(h_saves, SaveCall(DEFAULT_HOTKEY, save_returns))
                  ELSE h_saves
            /\ h_notifications' = notify("hotkey.runner.title_invalid_config")
       ELSE /\ h_hotkey' = hotkey_after_validation(h_error', h_hotkey_str)
            /\ UNCHANGED <<h_hotkey_str, h_config_hotkey, h_saves,
                           h_notifications>>
    /\ h_pc' = "bind"
    /\ UNCHANGED <<h_configured, h_config_loader, h_notification_manager,
                   h_binds, h_bound>>

\* the first bind (60-67)
StartBind(bind_returns) ==
    /\ h_pc = "bind"
    /\ h_binds' = Append(h_binds, BindCall(h_hotkey, bind_returns,
                                           h_hotkey_str, h_config_hotkey))
    /\ h_bound' = IF bind_returns THEN Some(h_hotkey) ELSE h_bound
    /\ h_pc' = IF ~bind_returns /\ h_hotkey # DEFAULT_HOTKEY THEN "fallback"
               ELSE "done"
    /\ UNCHANGED <<h_configured, h_hotkey_str, h_config_hotkey,
                   h_config_loader, h_notification_manager, h_hotkey, h_error,
                   h_saves, h_notifications>>

\* the bind of the default hotkey after a failed bind (68-90)
StartFallback(bind_returns, save_returns) ==
    /\ h_pc = "fallback"
    /\ h_hotkey_str' = DEFAULT_HOTKEY
    /\ h_config_hotkey' = DEFAULT_HOTKEY
    /\ h_binds' = Append(h_binds, BindCall(DEFAULT_HOTKEY, bind_returns,
                                           DEFAULT_HOTKEY, DEFAULT_HOTKEY))
    /\ h_bound' = IF bind_returns THEN Some(DEFAULT_HOTKEY) ELSE h_bound
    /\ h_saves' =
          IF bind_returns /\ h_config_loader # None
          THEN Append(h_saves, SaveCall(DEFAULT_HOTKEY, save_returns))
          ELSE h_saves
    /\ h_notifications' =
          IF bind_returns /\ (h_config_loader = None \/ save_returns)
          THEN notify("hotkey.runner.title_binding_failed")
          ELSE notify("hotkey.runner.title_serious_error")
    /\ h_pc' = "done"
    /\ UNCHANGED <<h_configured, h_config_loader, h_notification_manager,
                   h_hotkey, h_error>>

----------------------------------------------------------------------------
(* OutputExecutor.execute_docx_batch (app/workflows/output_executor.py     *)
(* 95-226).  b_action, b_items, b_from_html and b_pre_failures are the     *)
(* arguments (an item is its output path and its source filename; the      *)
(* bytes play no part), b_disk the paths that exist on disk.               *)
(* b_normalized is normalized_items, b_next the position of the second     *)
(* loop in it, b_success_paths and b_failures the two lists,               *)
(* b_notifications the messages notified, b_copy what the final            *)
(* copy_files_to_clipboard did, and b_result the value returned.           *)

\* the actions a caller passes; "print" is not an action the executor knows
BatchActions == {"open", "save", "clipboard", "print"}

Item(output_path, source_filename) ==
    [output_path |-> output_path, source_filename |-> source_filename]

\* the items a batch is made of: two of them ask for the same output path
BatchItems ==
    {Item("C:\\o\\a.docx", "a.md"), Item("C:\\o\\a.docx", "A.md"),
     Item("C:\\o\\b.docx", "b.md")}

\* (filename, error) pairs of the generation stage
PreFailures ==
    {<<>>, << <<"c.md", "convert">> >>,
     << <<"c.md", "convert">>, <<"d.md", "empty">> >>}

\* os.path.dirname and os.path.splitext(os.path.basename(path)) of a
\* Windows path
dirname(path) == SubSeq(path, 1, Len(path) - Len(basename(path)) - 1)
splitext(name) ==
    LET dots == {i \in 2..Len(name) : CharAt(name, i) = "."}
    IN  IF dots = {} THEN <<name, "">>
        ELSE LET d == CHOOSE i \in dots : \A j \in dots : j <= i
             IN  <<SubSeq(name, 1, d - 1), SubSeq(name, d, Len(name))>>

\* os.path.join(base_dir, f"{stem}{suffix}{ext}")
Sibling(path, suffix) ==
    LET parts == splitext(basename(path))
    IN  dirname(path) \o "\\" \o parts[1] \o suffix \o parts[2]

\* lines 127-134: the first of path_batch1, path_batch2, ... that is
\* neither seen nor on disk
RECURSIVE batch_candidate(_, _, _, _)
batch_candidate(path, idx, seen, disk) ==
    LET candidate == Sibling(path, "_batch" \o ToDecimal(idx))
    IN  IF candidate \in seen \/ candidate \in disk
        THEN batch_candidate(path, idx + 1, seen, disk)
        ELSE candidate

\* lines 136-138: what the generate_unique_path loop can end with, a path
\* made from output_path that is neither seen nor on disk
unique_paths(output_path, seen, disk) ==
    {u \in {output_path, Sibling(output_path, "_1"),
            Sibling(output_path, "_2")} : u \notin seen /\ u \notin disk}

\* lines 121-141: the normalized forms of the items, given those of the
\* items before them
RECURSIVE normalizations(_, _, _)
normalizations(items, seen, disk) ==
    IF items = <<>> THEN {<<>>}
    ELSE LET first == items[1]
             choices ==
                 IF first.output_path \in seen
                 THEN {batch_candidate(first.output_path, 1, seen, disk)}
                 ELSE unique_paths(first.output_path, seen, disk)
         IN  UNION {{<<Item(u, first.source_filename)>> \o rest :
                        rest \in normalizations(Tail(items), seen \cup {u},
                                                disk)} : u \in choices}

\* the notification of a failed item (171-186)
failure_message(action, from_html) ==
    CASE action = "clipboard" -> "workflow.action.clipboard_failed"
      [] action = "save" -> "workflow.document.save_failed"
      [] from_html -> "workflow.html.generate_failed"
      [] OTHER -> "workflow.document.generate_failed"

\* the loop body that leaves an item whose action failed out of both lists
batch_item_DropsActionFailure(action, from_html, item, writes, opens) ==
    IF ~writes \/ (action = "open" /\ opens = "raises")
    THEN [success |-> <<>>,
          failure |-> << <<item.source_filename, "error">> >>,
          notified |-> <<failure_message(action, from_html)>>]
    ELSE IF action = "open" /\ opens = "false"
    THEN [success |-> <<>>, failure |-> <<>>,
          notified |-> <<"workflow.document.open_failed">>]
    ELSE IF action \in {"open", "save", "clipboard"}
    THEN [success |-> <<item.output_path>>, failure |-> <<>>,
          notified |-> <<>>]
    ELSE [success |-> <<>>, failure |-> <<>>, notified |-> <<>>]

\* one pass through the loop body (146-187): writes says whether the file
\* could be written and opens what AppLauncher.awaken_and_open_document
\* did; the result is what is appended to success_paths and to failures and
\* what is notified
batch_item(action, from_html, item, writes, opens) ==
    IF ~writes \/ (action = "open" /\ opens = "raises")
    THEN [success |-> <<>>,
          failure |-> << <<item.source_filename, "error">> >>,
          notified |-> <<failure_message(action, from_html)>>]
    ELSE IF action = "open" /\ opens = "false"
    THEN [success |-> <<>>,
          failure |-> << <<item.source_filename, "action_failed:open">> >>,
          notified |-> <<"workflow.document.open_failed">>]
    ELSE IF action \in {"open", "save", "clipboard"}
    THEN [success |-> <<item.output_path>>, failure |-> <<>>,
          notified |-> <<>>]
    ELSE [success |-> <<>>,
          failure |->
              << <<item.source_filename, "action_failed:" \o action>> >>,
          notified |-> <<>>]

BatchResult(success_paths, failures) ==
    [success_paths |-> success_paths, failures |-> failures]

InitBatchIdle ==
    /\ b_action = "open"
    /\ b_items = <<>>
    /\ b_from_html = FALSE
    /\ b_pre_failures = <<>>
    /\ b_disk = {}
    /\ b_pc = "idle"
    /\ b_normalized = <<>>
    /\ b_next = 1
    /\ b_success_paths = <<>>
    /\ b_failures = <<>>
    /\ b_notifications = <<>>
    /\ b_copy = "not_called"
    /\ b_result = None

\* a call with any action, up to MaxItems items, any pre_failures, and the
\* first output path on disk or not
InitBatch ==
    /\ b_action \in BatchActions
    /\ b_items \in DistinctSeqs(BatchItems, MaxItems)
    /\ b_from_html \in BOOLEAN
    /\ b_pre_failures \in PreFailures
    /\ b_disk \in SUBSET {"C:\\o\\a.docx"}
    /\ b_pc = "start"
    /\ b_normalized = <<>>
    /\ b_next = 1
    /\ b_success_paths = <<>>
    /\ b_failures = <<>>
    /\ b_notifications = <<>>
    /\ b_copy = "not_called"
    /\ b_result = None

bArgs == <<b_action, b_items, b_from_html, b_pre_failures, b_disk>>

\* lines 117-144: the early return for no items, else the normalized items
\* and the two lists
BatchCall ==
    /\ b_pc = "start"
    /\ IF b_items = <<>>
       THEN /\ b_result' = Some(BatchResult(<<>>, b_pre_failures))
            /\ b_pc' = "done"
            /\ UNCHANGED <<b_normalized, b_failures>>
       ELSE /\ b_normalized' \in normalizations(b_items, {}, b_disk)
            /\ b_failures' = b_pre_failures
            /\ b_pc' = "loop"
            /\ UNCHANGED b_result
    /\ UNCHANGED <<bArgs, b_next, b_success_paths, b_notifications, b_copy>>

\* lines 146-187: one item
BatchItem(writes, opens) ==
    /\ b_pc = "loop"
    /\ b_next <= Len(b_normalized)
    /\ LET did == batch_item(b_action, b_from_html, b_normalized[b_next],
                             writes, opens)
       IN  /\ b_success_paths' = b_success_paths \o did.success
           /\ b_failures' = b_failures \o did.failure
           /\ b_notifications' = b_notifications \o did.notified
    /\ b_next' = b_next + 1
    /\ UNCHANGED <<bArgs, b_pc, b_normalized, b_copy, b_result>>

\* lines 190-226: the copy to the clipboard, the one success notification
\* of a batch, and the return
BatchFinish(copies) ==
    /\ b_pc = "loop"
    /\ b_next > Len(b_normalized)
    /\ LET copying == b_action = "clipboard" /\ b_success_paths # <<>>
           total_attempted == Len(b_items) + Len(b_pre_failures)
       IN  IF copying /\ ~copies
           THEN /\ b_copy' = "raised"
                /\ b_notifications' =
                      Append(b_notifications, "workflow.action.clipboard_failed")
                /\ b_failures' =
                      Append(b_failures, <<"_batch_clipboard", "error">>)
           ELSE /\ b_copy' = IF copying THEN "returned" ELSE "not_called"
                /\ b_notifications' =
                      IF total_attempted > 1 /\ b_success_paths # <<>>
                      THEN Append(b_notifications,
                                  "workflow.md_file.batch_success")
                      ELSE b_notifications
                /\ UNCHANGED b_failures
    /\ b_result' = Some(BatchResult(b_success_paths, b_failures'))
    /\ b_pc' = "done"
    /\ UNCHANGED <<bArgs, b_normalized, b_next, b_success_paths>>

----------------------------------------------------------------------------
(* ExcelWorkflow.execute (app/workflows/excel_workflow.py 17-49) and       *)
(* WordBaseWorkflow.execute (app/workflows/word/word_base.py 32-97).       *)
(* w_workflow says which of the two runs, w_config holds the config keys   *)
(* read (enable_excel, keep_file), w_content_type, w_from_md_file and      *)
(* w_md_file_count are the locals of the Word workflow, w_placed what      *)
(* placer.place did, w_saved what the keep_file save did, and              *)
(* w_notifications the calls of notification_manager.notify, each with     *)
(* its ok flag and a name for its message.  notify itself is taken to      *)
(* return: the display of a notification is outside the repository.        *)

Workflows == {"excel", "word"}

Notification(ok, msg) == [ok |-> ok, msg |-> msg]

\* PlaceResult of a placer: success with a method or none, failure with
\* an error text or none
PlaceResult(success, method, error) ==
    [success |-> success, method |-> method, error |-> error]
PlaceResults ==
    {PlaceResult(TRUE, Some("com"), None), PlaceResult(TRUE, None, None),
     PlaceResult(FALSE, None, Some("no document")),
     PlaceResult(FALSE, None, None)}

\* ExcelWorkflow._read_clipboard_table (51-70): empty is what
\* is_clipboard_empty returns, text what get_clipboard_text does and
\* table what parse_markdown_table does
read_clipboard_table(empty, text, table) ==
    IF empty = "raises" \/ (empty = "false" /\ text = "raises")
    THEN Raised("Exception")
    ELSE IF empty = "true" \/ text = "ClipboardError"
    THEN Raised("ClipboardError")
    ELSE IF table = "raises" THEN Raised("Exception")
    ELSE IF table = "none" THEN Raised("ClipboardError")
    ELSE Returned("table")

\* WordBaseWorkflow._read_clipboard (99-118): html is what
\* get_clipboard_html and is_plain_html_fragment make of the clipboard
\* (a plain fragment and a ClipboardError both fall through, 105-108),
\* files the number of Markdown files read from it
read_clipboard(html, empty, text, files) ==
    IF html = "raises" THEN Raised("Exception")
    ELSE IF html = "rich" THEN Returned(<<"html", FALSE, 0>>)
    ELSE IF empty = "raises" \/ (empty = "false" /\ text = "raises")
    THEN Raised("Exception")
    ELSE IF empty = "false"
    THEN IF text = "ClipboardError" THEN Raised("ClipboardError")
         ELSE Returned(<<"markdown", FALSE, 0>>)
    ELSE IF files > 0 THEN Returned(<<"markdown", TRUE, files>>)
    ELSE Raised("ClipboardError")

\* the except clauses: excel_workflow.py 41-49, word_base.py 83-97
error_notification(workflow, content_type, exception) ==
    IF workflow = "excel"
    THEN IF exception = "ClipboardError"
         THEN Notification(FALSE, "excel.clipboard_failed")
         ELSE Notification(FALSE, "excel.failure")
    ELSE IF exception = "ClipboardError"
    THEN Notification(FALSE, "workflow.clipboard.read_failed")
    ELSE IF exception = "PandocError"
    THEN IF content_type = Some("html")
         THEN Notification(FALSE, "workflow.html.convert_failed_generic")
         ELSE Notification(FALSE, "workflow.markdown.convert_failed")
    ELSE Notification(FALSE, "workflow.generic.failure")

\* a variant that reports every result of the placer as a success
result_notification_AlwaysSuccess(workflow, result, content_type, from_md_file, md_file_count) ==
    IF workflow = "excel"
    THEN Notification(TRUE, "excel.insert_success")
    ELSE Notification(TRUE, "workflow.word.insert_success")

\* the notification of the placer's result: excel_workflow.py 32-36,
\* word_base.py 58-78
result_notification(workflow, result, content_type, from_md_file, md_file_count) ==
    IF workflow = "excel"
    THEN IF result.success
         THEN Notification(TRUE, "excel.insert_success")
         ELSE Notification(FALSE, IF result.error # None THEN result.error[1]
                                  ELSE "excel.insert_failed")
    ELSE IF result.success
    THEN IF from_md_file
         THEN IF md_file_count > 1
              THEN Notification(TRUE, "workflow.md_file.insert_success_multi")
              ELSE Notification(TRUE, "workflow.md_file.insert_success")
         ELSE IF content_type = Some("html")
         THEN Notification(TRUE, "workflow.html.insert_success")
         ELSE Notification(TRUE, "workflow.word.insert_success")
    ELSE Notification(FALSE, IF result.error # None THEN result.error[1]
                             ELSE "workflow.generic.failure")

InitWorkflowIdle ==
    /\ w_workflow = "excel"
    /\ w_config = [enable_excel |-> TRUE, keep_file |-> FALSE]
    /\ w_pc = "idle"
    /\ w_content_type = None
    /\ w_from_md_file = FALSE
    /\ w_md_file_count = 0
    /\ w_placed = "not_called"
    /\ w_saved = "not_called"
    /\ w_notifications = <<>>

\* a call of execute of either workflow under any configuration
InitWorkflow ==
    /\ w_workflow \in Workflows
    /\ w_config \in [enable_excel : BOOLEAN, keep_file : BOOLEAN]
    /\ w_pc = "start"
    /\ w_content_type = None
    /\ w_from_md_file = FALSE
    /\ w_md_file_count = 0
    /\ w_placed = "not_called"
    /\ w_saved = "not_called"
    /\ w_notifications = <<>>

wfLocals == <<w_content_type, w_from_md_file, w_md_file_count>>

\* what an exception raised inside the try does
Handled(exception) ==
    /\ w_notifications' =
          Append(w_notifications,
                 error_notification(w_workflow, w_content_type', exception))
    /\ w_pc' = "done"

\* ExcelWorkflow.execute up to the call of the placer (19-26)
ExcelRead(empty, text, table) ==
    /\ w_pc = "start"
    /\ w_workflow = "excel"
    /\ IF ~w_config.enable_excel
       THEN /\ w_notifications' =
                  Append(w_notifications,
                         Notification(FALSE, "excel.disabled"))
            /\ w_pc' = "done"
            /\ UNCHANGED wfLocals
       ELSE LET read == read_clipboard_table(empty, text, table)
            IN  /\ UNCHANGED wfLocals
                /\ IF read.raised THEN Handled(read.value)
                   ELSE /\ w_pc' = "place"
                        /\ UNCHANGED w_notifications
    /\ UNCHANGED <<w_workflow, w_config, w_placed, w_saved>>

\* WordBaseWorkflow.execute up to the call of the placer (33-54):
\* preprocess is what the preprocessor does and convert what the document
\* generator does
WordRead(html, empty, text, files, preprocess, convert) ==
    /\ w_pc = "start"
    /\ w_workflow = "word"
    /\ LET read == read_clipboard(html, empty, text, files)
       IN  IF read.raised
           THEN /\ UNCHANGED wfLocals
                /\ Handled(read.value)
           ELSE /\ w_content_type' = Some(read.value[1])
                /\ w_from_md_file' = read.value[2]
                /\ w_md_file_count' = read.value[3]
                /\ IF preprocess = "raises" THEN Handled("Exception")
                   ELSE IF convert = "PandocError" THEN Handled("PandocError")
                   ELSE IF convert = "raises" THEN Handled("Exception")
                   ELSE /\ w_pc' = "place"
                        /\ UNCHANGED w_notifications
    /\ UNCHANGED <<w_workflow, w_config, w_placed, w_saved>>

\* the call of the placer, the notification of its result, and the
\* decision to save (excel_workflow.py 29-39, word_base.py 56-81)
PlaceReturns(result) ==
    /\ w_pc = "place"
    /\ w_placed' = IF result.success THEN "success" ELSE "failure"
    /\ w_notifications' =
          Append(w_notifications,
                 result_notification(w_workflow, result, w_content_type,
                                     w_from_md_file, w_md_file_count))
    /\ w_pc' = IF result.success /\ w_config.keep_file THEN "save" ELSE "done"
    /\ UNCHANGED <<w_workflow, w_config, wfLocals, w_saved>>

\* the placer raises
PlaceRaises ==
    /\ w_pc = "place"
    /\ w_placed' = "raised"
    /\ UNCHANGED wfLocals
    /\ Handled("Exception")
    /\ UNCHANGED <<w_workflow, w_config, w_saved>>

\* _save_xlsx (excel_workflow.py 72-96), _save_docx (word_base.py 120-131):
\* an exception of the save is logged and dropped
SaveFile(saves) ==
    /\ w_pc = "save"
    /\ w_saved' = IF saves THEN "saved" ELSE "failed"
    /\ w_pc' = "done"
    /\ UNCHANGED <<w_workflow, w_config, wfLocals, w_placed, w_notifications>>

----------------------------------------------------------------------------
(* Specifications *)

\* the recorder, driven by its owner and by the keyboard
InitOthersIdle ==
    /\ InitMarkdownIdle /\ InitRaceIdle /\ InitRunnerIdle /\ InitBatchIdle
    /\ InitWorkflowIdle

Init ==
    /\ InitRecorder /\ InitValidatorIdle /\ InitExtractorIdle
    /\ InitPollerIdle /\ InitOthersIdle

Next ==
    \/ \E u \in UpdateCallbacks, f \in FinishCallbacks :
          StartRecording(u, f)
              /\ UNCHANGED <<last_call, valVars, extVars, polVars, otherVars>>
    \/ StopRecording /\ UNCHANGED <<last_call, valVars, extVars, polVars, otherVars>>
    \/ \E key \in Keys :
          KeyDown(key) /\ UNCHANGED <<last_call, valVars, extVars, polVars, otherVars>>
    \/ \E key \in Keys :
          KeyUp(key) /\ UNCHANGED <<last_call, valVars, extVars, polVars, otherVars>>

Spec == Init /\ [][Next]_vars

\* the recorder with callbacks that may raise (on_finish always given), on a
\* keyboard of three keys, each step noting the call made on the recorder
SessionUpdateCallbacks == UpdateCallbacks \cup {Some("failing_on_update")}
SessionFinishCallbacks == {Some("on_finish"), Some("failing_on_finish")}
SessionKeys == {KeyCtrlL, KeyA, KeyDead}

NextS ==
    \/ \E u \in SessionUpdateCallbacks, f \in SessionFinishCallbacks :
          StartRecording(u, f) /\ last_call' = "start"
              /\ UNCHANGED <<valVars, extVars, polVars, otherVars>>
    \/ StopRecording /\ last_call' = "stop"
          /\ UNCHANGED <<valVars, extVars, polVars, otherVars>>
    \/ \E key \in SessionKeys :
          KeyDown(key) /\ last_call' = "press"
              /\ UNCHANGED <<valVars, extVars, polVars, otherVars>>
    \/ \E key \in SessionKeys :
          KeyUp(key) /\ last_call' = "release"
              /\ UNCHANGED <<valVars, extVars, polVars, otherVars>>

SpecSessions == Init /\ [][NextS]_vars

\* the validator, on every token set
InitV ==
    /\ InitRecorder /\ InitValidator /\ InitExtractorIdle
    /\ InitPollerIdle /\ InitOthersIdle

NextV ==
    \/ ValidateKeys /\ UNCHANGED <<recVars, extVars, polVars, otherVars>>
    \/ GenerateString /\ UNCHANGED <<recVars, extVars, polVars, otherVars>>
    \/ ValidateString /\ UNCHANGED <<recVars, extVars, polVars, otherVars>>

SpecValidator == InitV /\ [][NextV]_vars

\* the extractor, on every container
InitX ==
    /\ InitRecorder /\ InitValidatorIdle /\ InitExtractor
    /\ InitPollerIdle /\ InitOthersIdle

NextX ==
    \/ ExtractBytes /\ UNCHANGED <<recVars, valVars, polVars, otherVars>>
    \/ ExtractText /\ UNCHANGED <<recVars, valVars, polVars, otherVars>>

SpecExtractor == InitX /\ [][NextX]_vars

\* the poller, for every wait, interval and clipboard behaviour; the call's
\* own steps are always taken in the end (the thread runs, and each clipboard
\* call and each sleep returns)
InitP ==
    /\ InitRecorder /\ InitValidatorIdle /\ InitExtractorIdle
    /\ InitPoller /\ InitOthersIdle

NextP ==
    \/ PollStep /\ UNCHANGED <<recVars, valVars, extVars, otherVars>>
    \/ Render /\ UNCHANGED <<recVars, valVars, extVars, otherVars>>

SpecPoller == InitP /\ [][NextP]_vars /\ WF_polVars(PollStep)

\* the recorder, the validator, the extractor and the poller at rest
InitCoreIdle ==
    /\ InitRecorder /\ InitValidatorIdle /\ InitExtractorIdle
    /\ InitPollerIdle
coreVars == <<recVars, valVars, extVars, polVars>>

\* read_markdown_files_from_clipboard, on every platform, file list and disk
InitM ==
    /\ InitCoreIdle /\ InitMarkdown /\ InitRaceIdle /\ InitRunnerIdle
    /\ InitBatchIdle /\ InitWorkflowIdle

NextM ==
    \/ \E opened \in BOOLEAN :
          ReadCall(opened) /\ UNCHANGED <<coreVars, raceVars, runVars, batVars, wfVars>>
    \/ ReadFile /\ UNCHANGED <<coreVars, raceVars, runVars, batVars, wfVars>>
    \/ ReadReturn /\ UNCHANGED <<coreVars, raceVars, runVars, batVars, wfVars>>

SpecMarkdown == InitM /\ [][NextM]_vars

\* the recorder's two threads, statement by statement
InitR == InitCoreIdle /\ InitOthersIdle

NextR ==
    \/ RaceStart /\ UNCHANGED <<coreVars, mdVars, runVars, batVars, wfVars>>
    \/ StopCall /\ UNCHANGED <<coreVars, mdVars, runVars, batVars, wfVars>>
    \/ StopThreadStep /\ UNCHANGED <<coreVars, mdVars, runVars, batVars, wfVars>>
    \/ \E type \in {"press", "release"}, key \in RaceKeys :
          Deliver(type, key) /\ UNCHANGED <<coreVars, mdVars, runVars, batVars, wfVars>>
    \/ PressStep /\ UNCHANGED <<coreVars, mdVars, runVars, batVars, wfVars>>
    \/ ReleaseStep /\ UNCHANGED <<coreVars, mdVars, runVars, batVars, wfVars>>
    \/ FinishStep /\ UNCHANGED <<coreVars, mdVars, runVars, batVars, wfVars>>

SpecRace == InitR /\ [][NextR]_vars

\* HotkeyRunner.start, for every configured hotkey and every outcome of
\* bind and save
InitH ==
    /\ InitCoreIdle /\ InitMarkdownIdle /\ InitRaceIdle /\ InitRunner
    /\ InitBatchIdle /\ InitWorkflowIdle

NextH ==
    \/ \E save_returns \in BOOLEAN :
          StartValidate(save_returns)
              /\ UNCHANGED <<coreVars, mdVars, raceVars, batVars, wfVars>>
    \/ \E bind_returns \in BOOLEAN :
          StartBind(bind_returns)
              /\ UNCHANGED <<coreVars, mdVars, raceVars, batVars, wfVars>>
    \/ \E bind_returns \in BOOLEAN, save_returns \in BOOLEAN :
          StartFallback(bind_returns, save_returns)
              /\ UNCHANGED <<coreVars, mdVars, raceVars, batVars, wfVars>>

SpecRunner == InitH /\ [][NextH]_vars

\* execute_docx_batch, for every action, batch and outcome of the writes,
\* the opens and the clipboard copy
InitB ==
    /\ InitCoreIdle /\ InitMarkdownIdle /\ InitRaceIdle /\ InitRunnerIdle
    /\ InitBatch /\ InitWorkflowIdle

NextB ==
    \/ BatchCall /\ UNCHANGED <<coreVars, mdVars, raceVars, runVars, wfVars>>
    \/ \E writes \in BOOLEAN, opens \in {"true", "false", "raises"} :
          BatchItem(writes, opens)
              /\ UNCHANGED <<coreVars, mdVars, raceVars, runVars, wfVars>>
    \/ \E copies \in BOOLEAN :
          BatchFinish(copies)
              /\ UNCHANGED <<coreVars, mdVars, raceVars, runVars, wfVars>>

SpecBatch == InitB /\ [][NextB]_vars

\* one run of execute of the Excel or the Word workflow, for every
\* configuration and every outcome of the clipboard, the converter, the
\* placer and the save
InitW ==
    /\ InitCoreIdle /\ InitMarkdownIdle /\ InitRaceIdle /\ InitRunnerIdle
    /\ InitBatchIdle /\ InitWorkflow

wfOthers == <<coreVars, mdVars, raceVars, runVars, batVars>>

NextW ==
    \/ \E empty \in {"true", "false", "raises"},
          text \in {"text", "ClipboardError", "raises"},
          table \in {"rows", "none", "raises"} :
          ExcelRead(empty, text, table) /\ UNCHANGED wfOthers
    \/ \E html \in {"rich", "plain", "ClipboardError", "raises"},
          empty \in {"true", "false", "raises"},
          text \in {"text", "ClipboardError", "raises"},
          files \in 0..MaxFiles,
          preprocess \in {"returns", "raises"},
          convert \in {"returns", "PandocError", "raises"} :
          WordRead(html, empty, text, files, preprocess, convert)
              /\ UNCHANGED wfOthers
    \/ \E result \in PlaceResults : PlaceReturns(result) /\ UNCHANGED wfOthers
    \/ PlaceRaises /\ UNCHANGED wfOthers
    \/ \E saves \in BOOLEAN : SaveFile(saves) /\ UNCHANGED wfOthers

SpecWorkflow == InitW /\ [][NextW]_vars

----------------------------------------------------------------------------
(* Properties of the recorder (under Spec) *)

\* the session's events are one press and one release of each of ctrl, alt
\* and a, every press before every release, and nothing else
ChordEvents ==
    /\ \A e \in EventKinds :
          events[e] = IF e[2] \in {Some("ctrl"), Some("alt"), Some("a")}
                      THEN 1 ELSE 0
    /\ ~press_after_release

\* C1: pressing ctrl, alt and a in any order and then releasing all three in
\* any order ends the session with exactly one on_finish call, carrying
\* "<ctrl>+<alt>+a" and no error; and while a has been pressed and not yet
\* released the session stays active with no on_finish call, whichever of
\* ctrl and alt are released.
C1_ChordCompletion ==
    /\ ChordEvents =>
          /\ session = "finished" /\ ~recording
          /\ on_finish_callback # None =>
                finish_calls = <<[hotkey_str |-> Some("<ctrl>+<alt>+a"),
                                  error |-> None]>>
    /\ (/\ session \in {"active", "finished"}
        /\ Count("press", Some("a")) > 0
        /\ Count("release", Some("a")) = 0) =>
          /\ session = "active" /\ recording
          /\ finish_calls = <<>>

C1_Witness ==
    /\ ChordEvents
    /\ on_finish_callback # None
    /\ Len(finish_calls) = 1

\* the tokens pressed during the session, and those of them whose key is
\* down, i.e. whose latest press has not been followed by a release
PressedInSession ==
    {n \in KeyNames \ {None} : Count("press", n) > 0}
StillHeld ==
    {n \in PressedInSession : \E key \in held : get_key_name(key) = n}

\* C2: an event of an active session finishes it if and only if it is a
\* release after which at least one token was pressed during the session and
\* no token pressed during the session is still held.
C2_CompletionRule ==
    [][(session = "active") =>
          ((session' = "finished") <=>
             (/\ held' # held /\ held' \subseteq held
              /\ PressedInSession' # {}
              /\ StillHeld' = {}))]_vars

C4_NoKeyDetected ==
    (/\ session \in {"finished", "stopped"}
     /\ on_finish_callback # None
     /\ PressedInSession = {}) =>
        finish_calls = <<[hotkey_str |-> None,
                          error |-> Some("hotkey.recorder.error.no_key_detected")]>>

----------------------------------------------------------------------------
(* Properties of the validator (under SpecValidator) *)

\* the key sets of the reserved table
ReservedSets ==
    {ComboSet(SYSTEM_HOTKEY_DESCRIPTIONS[i][1]) :
        i \in 1..Len(SYSTEM_HOTKEY_DESCRIPTIONS)}

\* the translation key of a message
MessageKey(message) == Split(message, "{")[1]

IsReservedError(e) ==
    /\ e # None
    /\ MessageKey(e[1]) = IF v_detailed
                          THEN "hotkey.recorder.error.system_reserved_long"
                          ELSE "hotkey.recorder.error.system_reserved_short"

IsShiftOnlyError(e) ==
    e = Some(IF v_detailed THEN "hotkey.recorder.error.shift_only_long"
                           ELSE "hotkey.recorder.error.shift_only_short")

\* C5: validate_hotkey_keys returns the error of the first failing rule:
\* no modifier, then no normal key, then modifiers exactly {shift}, then a
\* reserved combination, and None when no rule fails.
C5_ValidationOrder ==
    v_pc # "start" =>
        LET K == v_keys
            e == v_keys_error
            modifiers == {"ctrl", "shift", "alt", "cmd", "win"}
        IN  IF K \cap modifiers = {}
            THEN e = Some("hotkey.recorder.error.no_modifier")
            ELSE IF K \subseteq modifiers
            THEN e = Some("hotkey.recorder.error.no_normal_key")
            ELSE IF K \cap modifiers = {"shift"}
            THEN IsShiftOnlyError(e)
            ELSE IF K \in ReservedSets
            THEN IsReservedError(e)
            ELSE e = None

\* a set that violates the second and the third rule gets the second's error
C5_Witness ==
    /\ v_pc = "validated"
    /\ v_keys = {"shift"}
    /\ v_keys_error = Some("hotkey.recorder.error.no_normal_key")

\* C6, as claimed: {shift} yields the shift-only error, {ctrl} the
\* no-normal-key error, {a} the no-modifier error and {ctrl, c} the
\* reserved-combination error for ctrl+c.
C6_NamedErrors ==
    v_pc # "start" =>
        /\ v_keys = {"shift"} => IsShiftOnlyError(v_keys_error)
        /\ v_keys = {"ctrl"} =>
              v_keys_error = Some("hotkey.recorder.error.no_normal_key")
        /\ v_keys = {"a"} =>
              v_keys_error = Some("hotkey.recorder.error.no_modifier")
        /\ v_keys = {"ctrl", "c"} => IsReservedError(v_keys_error)

\* the reserved-combination error that names ctrl+c: the description of
\* ctrl+c in the long form, the combination itself in the short form
NamesCtrlC(e) ==
    /\ IsReservedError(e)
    /\ e[1] = IF v_detailed
              THEN "hotkey.recorder.error.system_reserved_long{hotkey.recorder.system.ctrl_c}"
              ELSE "hotkey.recorder.error.system_reserved_short{CTRL+C}"

\* C6, amended: {shift} alone yields the no-normal-key error (the shift-only
\* error is what shift with a normal key, such as {shift, a}, yields); {ctrl}
\* yields the no-normal-key error, {a} the no-modifier error and {ctrl, c}
\* the reserved-combination error naming ctrl+c.
C6_NamedErrorsAmended ==
    v_pc # "start" =>
        /\ v_keys = {"shift"} =>
              v_keys_error = Some("hotkey.recorder.error.no_normal_key")
        /\ v_keys = {"shift", "a"} => IsShiftOnlyError(v_keys_error)
        /\ v_keys = {"ctrl"} =>
              v_keys_error = Some("hotkey.recorder.error.no_normal_key")
        /\ v_keys = {"a"} =>
              v_keys_error = Some("hotkey.recorder.error.no_modifier")
        /\ v_keys = {"ctrl", "c"} => NamesCtrlC(v_keys_error)

C6_Witness ==
    /\ v_pc = "validated"
    /\ v_keys = {"ctrl", "c"}
    /\ NamesCtrlC(v_keys_error)

\* the rule that produced a verdict: "" for None
Verdict(e) == IF e = None THEN "" ELSE MessageKey(e[1])

\* C7: for every non-empty token set the recorder can record,
\* validate_hotkey_keys on the set and validate_hotkey_string on the string
\* generated from it give the same verdict: both accept, or both reject by
\* the same rule.
C7_PathsAgree ==
    (v_pc = "done" /\ v_keys # {} /\ v_keys \subseteq RecordableTokens) =>
        Verdict(v_str_error) = Verdict(v_keys_error)

----------------------------------------------------------------------------
(* The CF_HTML extractor's claims, under SpecExtractor *)

\* the run has ended
Extracted == x_pc = "done"

\* the number a header value of the layout writes
OffsetValue(offset) ==
    IF offset = "len" THEN Len(x_input) ELSE IntOfDigits(offset)

\* the header value is a run of decimal digits
NumericOffset(offset) == offset \in {"000", "050", "len", "999"}

\* StartFragment and EndFragment are numeric and 0 <= s <= e <= length
OffsetsWellFormed ==
    /\ NumericOffset(x_layout.start_fragment)
    /\ NumericOffset(x_layout.end_fragment)
    /\ 0 <= OffsetValue(x_layout.start_fragment)
    /\ OffsetValue(x_layout.start_fragment) <= OffsetValue(x_layout.end_fragment)
    /\ OffsetValue(x_layout.end_fragment) <= Len(x_input)

\* the container holds <!--StartFragment-->X<!--EndFragment-->
HasAnchors == x_layout.body \in {"own_line", "inline"}

\* X as a str: the fragment between the anchors, decoded
AnchoredFragment ==
    IF x_layout.variant = "text" THEN x_layout.fragment
    ELSE x_layout.fragment \o "!"

\* input[s:e] as a str, for 0 <= s <= e <= length
OffsetSlice ==
    LET slice == SubSeq(x_input, OffsetValue(x_layout.start_fragment) + 1,
                        OffsetValue(x_layout.end_fragment))
    IN  IF x_layout.variant = "text" THEN slice ELSE Decode(slice)

\* C8: neither variant of the extractor raises; every run returns a string,
\* whatever the StartFragment, EndFragment, StartHTML and EndHTML values are
C8_NeverRaises == Extracted => ~x_outcome.raised

\* C9: when the StartFragment/EndFragment offsets are missing, non-numeric or
\* not an ascending range within the data, and the container holds
\* <!--StartFragment-->X<!--EndFragment-->, either variant returns exactly X
C9_AnchorFallback ==
    (Extracted /\ HasAnchors /\ ~OffsetsWellFormed)
        => x_outcome = Returned(AnchoredFragment)

\* C10: when the header carries numeric StartFragment = s and EndFragment = e
\* with 0 <= s <= e <= length, either variant returns exactly input[s:e],
\* decoded, also when the container's anchors delimit another range
C10_OffsetsPrecedence ==
    (Extracted /\ OffsetsWellFormed) => x_outcome = Returned(OffsetSlice)

\* a bytes container with anchors whose offsets 50..length delimit another,
\* non-empty range, which holds the invalid byte
C10_Witness ==
    /\ Extracted /\ OffsetsWellFormed /\ HasAnchors
    /\ x_layout.variant = "bytes"
    /\ x_layout.start_fragment = "050" /\ x_layout.end_fragment = "len"
    /\ x_outcome = Returned(OffsetSlice)
    /\ x_outcome.value # AnchoredFragment
    /\ Len(x_outcome.value) = Len(x_input) - 50 - 1

\* StartHTML and EndHTML are each missing, not a run of digits (text, a
\* negative number) or beyond the length: neither gives a usable offset
NoHtmlRange ==
    /\ NumericOffset(x_layout.start_html)
          => OffsetValue(x_layout.start_html) > Len(x_input)
    /\ NumericOffset(x_layout.end_html)
          => OffsetValue(x_layout.end_html) > Len(x_input)

\* the whole input as a str
WholeInput == IF x_layout.variant = "text" THEN x_input ELSE Decode(x_input)

\* C11: with no valid StartFragment/EndFragment range, no anchor pair and no
\* valid StartHTML/EndHTML range (missing, non-numeric, negative, out of
\* range), either variant returns the whole input, decoded and unmodified
C11_FinalFallback ==
    (Extracted /\ ~OffsetsWellFormed /\ ~HasAnchors /\ NoHtmlRange)
        => x_outcome = Returned(WholeInput)

----------------------------------------------------------------------------
(* The clipboard poller's claims, under SpecPoller *)

Returned_ == p_pc = "returned"

\* what an attempt does when a clipboard call raises or the data is None
FailedAttempts == {"open_raises", "check_raises", "get_raises", "data_none"}

\* the attempts made so far, and the last of them
Attempts == Len(p_outcomes)
LastAttempt == p_outcomes[Len(p_outcomes)]

FirstCheckUnavailable ==
    \E i \in 1..Attempts :
        /\ p_outcomes[i] = "unavailable"
        /\ \A j \in 1..(i - 1) : p_outcomes[j] \in {"open_raises", "check_raises"}

\* the format became available before the deadline
RenderedBeforeDeadline ==
    clip_rendered_at # None /\ clip_rendered_at[1] < p_deadline

\* C13: when the first availability check reports the format unavailable and
\* the format becomes available before the deadline, the poller returns the
\* data
C13_DelayedRendering ==
    (Returned_ /\ FirstCheckUnavailable /\ RenderedBeforeDeadline)
        => p_result = Some(ClipboardData)

\* the attempts fit the wait window: each starts before the deadline, at
\* least 1 ms and at least one interval after the one before
AttemptsInWindow ==
    /\ \A i \in 1..Len(p_starts) : p_starts[i] < p_deadline
    /\ \A i \in 2..Len(p_starts) :
          /\ p_starts[i] >= p_starts[i - 1] + 1
          /\ p_starts[i] >= p_starts[i - 1] + p_interval_ms
    /\ Len(p_starts) <= (IF p_wait_ms < 0 THEN 0 ELSE p_wait_ms)
    /\ p_wait_ms <= 0 => Len(p_starts) = 0

\* C14: for every wait_ms, interval_ms and clipboard behaviour the poller
\* terminates, and returns None when no attempt read the data; no attempt
\* starts at or after the deadline, attempts are at least 1 ms apart even
\* with interval_ms <= 0, so their number is bounded by the wait window, and
\* with wait_ms <= 0 there is no attempt
C14_PollerTermination ==
    /\ <>Returned_
    /\ [](Returned_ => (p_result = None <=> (Attempts = 0 \/ LastAttempt # "data")))
    /\ []AttemptsInWindow

\* a clipboard that is busy on every attempt, polled with interval_ms <= 0
\* until the deadline has passed
C14_Witness ==
    /\ Returned_ /\ p_result = None
    /\ p_wait_ms = 3 /\ p_interval_ms <= 0
    /\ p_outcomes = <<"open_raises", "open_raises", "open_raises">>
    /\ p_starts = <<0, 1, 2>>
    /\ p_now >= p_deadline

----------------------------------------------------------------------------
(* The recorder's session claims, under SpecSessions *)

\* the callbacks the recorder has stored
StoredCallbacks ==
    {c[1] : c \in {on_update_callback, on_finish_callback} \ {None}}

\* the tokens whose press the handlers saw in this session
SessionTokens == {n[1] : n \in PressedInSession}

\* C15: start_recording during a session leaves recording, the three sets,
\* both callbacks and the listener as they are, starts no second listener and
\* invokes nothing; only the stored callbacks, those of the call that started
\* the session, are ever invoked
C15_StartIgnored ==
    /\ [][(last_call' = "start" /\ recording) =>
             UNCHANGED <<recording, pressed_keys, released_keys,
                         all_pressed_keys, on_update_callback,
                         on_finish_callback, recording_listener,
                         running_listeners, invoked, update_count,
                         finish_calls>>]_vars
    /\ [](running_listeners <= 1)
    /\ [](invoked \subseteq StoredCallbacks)

\* a start_recording call has just been ignored in a session that has seen
\* ctrl go down and has notified on_update
C15_Witness ==
    /\ last_call = "start" /\ recording
    /\ all_pressed_keys = {"ctrl"}
    /\ invoked = {"on_update"}
    /\ running_listeners = 1

\* C16: stop_recording leaves recording False, the listener None and the
\* three sets empty; when not recording it changes nothing else; a session
\* started afterwards begins with the three sets empty, and the ever-pressed
\* set of a session holds only tokens pressed in that session
C16_StopClears ==
    /\ [][(last_call' = "stop") =>
             (/\ recording' = FALSE /\ recording_listener' = None
              /\ pressed_keys' = {} /\ released_keys' = {}
              /\ all_pressed_keys' = {}
              /\ ~recording =>
                    UNCHANGED <<on_update_callback, on_finish_callback,
                                running_listeners, session, update_count,
                                last_update, finish_calls, invoked, escaped,
                                held>>)]_vars
    /\ [][(last_call' = "start" /\ ~recording) =>
             (/\ recording'
              /\ pressed_keys' = {} /\ released_keys' = {}
              /\ all_pressed_keys' = {})]_vars
    /\ [](/\ all_pressed_keys \subseteq SessionTokens
          /\ pressed_keys \subseteq SessionTokens
          /\ recording => all_pressed_keys = SessionTokens)

\* stop_recording has just ended a session in which ctrl and a went down
C16_Witness ==
    /\ last_call = "stop" /\ session = "stopped"
    /\ SessionTokens = {"ctrl", "a"}
    /\ ~recording /\ recording_listener = None
    /\ all_pressed_keys = {} /\ pressed_keys = {} /\ released_keys = {}

\* C17: there is never more than one running listener, the handle is set
\* only while recording, and after a completed chord (accepted or rejected)
\* or a stop_recording the listener is stopped and the handle released
C17_ListenerOwnership ==
    /\ running_listeners <= 1
    /\ recording_listener # None => recording
    /\ (recording_listener # None) <=> (running_listeners = 1)
    /\ session \in {"finished", "stopped"} =>
          (recording_listener = None /\ running_listeners = 0)
    /\ last_call = "stop" => (recording_listener = None /\ running_listeners = 0)

\* a chord rejected by validation has ended the session
C17_Witness ==
    /\ session = "finished"
    /\ Len(finish_calls) = 1 /\ finish_calls[1].error # None
    /\ recording_listener = None /\ running_listeners = 0

\* the step is a press (a release) event of the session whose key normalizes
\* to a token
TokenPressed ==
    \E n \in KeyNames \ {None} :
        events'[<<"press", n>>] = events[<<"press", n>>] + 1
TokenReleased ==
    \E n \in KeyNames \ {None} :
        events'[<<"release", n>>] = events[<<"release", n>>] + 1

\* the step is an event of the session whose key does not normalize
NormalizationFailed ==
    \E type \in {"press", "release"} :
        events'[<<type, None>>] = events[<<type, None>>] + 1

\* the step invokes on_update with the display form of the ever-pressed set
UpdateInvoked ==
    /\ update_count' = update_count + 1
    /\ last_update' = Some(format_keys_for_display(
                              all_pressed_keys \cup all_pressed_keys'))

\* C18: every press event and every release event of an active session that
\* normalizes to a token invokes on_update with the current display form
C18_UpdateOnEveryChange ==
    [][(recording /\ on_update_callback # None
           /\ (TokenPressed \/ TokenReleased)) => UpdateInvoked]_vars

\* C18 as the code has it: every press event of an active session that
\* normalizes to a token invokes on_update (when one is stored) with the
\* display form of the ever-pressed set; a release event invokes no on_update
C18_UpdateOnPress ==
    /\ [][(recording /\ on_update_callback # None /\ TokenPressed)
             => UpdateInvoked]_vars
    /\ [][(recording /\ TokenReleased)
             => UNCHANGED <<update_count, last_update>>]_vars
    /\ [][(on_update_callback = None) => UNCHANGED update_count]_vars

\* ctrl and a went down, a went up: two on_update calls, the last with
\* "Ctrl + A"
C18_Witness ==
    /\ session = "active" /\ on_update_callback # None
    /\ Count("press", Some("ctrl")) = 1 /\ Count("press", Some("a")) = 1
    /\ Count("release", Some("a")) = 1
    /\ update_count = 2
    /\ last_update = Some("Ctrl + A")

\* C19: no exception leaves a key handler; an event whose key does not
\* normalize and an on_update that raises leave the session active, with
\* later events still recorded; after an on_finish that raises the session
\* has ended and the listener is stopped
C19_FailureContainment ==
    /\ [](~escaped)
    /\ [](session = "active" => (recording /\ recording_listener # None))
    /\ [](recording => all_pressed_keys = SessionTokens)
    /\ [][(session = "active" /\ NormalizationFailed) =>
             (session' = "active"
              /\ UNCHANGED <<pressed_keys, released_keys, all_pressed_keys>>)]_vars
    /\ [][(session = "active" /\ on_update_callback \in FailingCallbacks
              /\ TokenPressed) =>
             (session' = "active" /\ recording' /\ UpdateInvoked)]_vars
    /\ [](("failing_on_finish" \in invoked) =>
             (/\ session = "finished" /\ ~recording
              /\ recording_listener = None /\ running_listeners = 0
              /\ Len(finish_calls) = 1))

\* a session with a key that did not normalize, a raising on_update invoked
\* twice and a raising on_finish, ended by the chord ctrl + a
C19_Witness ==
    /\ invoked = {"failing_on_update", "failing_on_finish"}
    /\ Count("press", None) = 1
    /\ SessionTokens = {"ctrl", "a"}
    /\ update_count = 2
    /\ session = "finished" /\ Len(finish_calls) = 1
    /\ ~escaped

----------------------------------------------------------------------------
(* The rendering claims, under SpecValidator *)

\* the modifiers of the set in the order ctrl, shift, alt, cmd
ModifiersFirst ==
    (IF "ctrl" \in v_keys THEN <<"ctrl">> ELSE <<>>)
        \o (IF "shift" \in v_keys THEN <<"shift">> ELSE <<>>)
        \o (IF "alt" \in v_keys THEN <<"alt">> ELSE <<>>)
        \o (IF "cmd" \in v_keys THEN <<"cmd">> ELSE <<>>)

\* the other tokens of the set, in every order
RECURSIVE PermsOf(_)
PermsOf(S) ==
    IF S = {} THEN {<<>>}
    ELSE UNION {{<<x>> \o perm : perm \in PermsOf(S \ {x})} : x \in S}
OtherTokens == PermsOf(v_keys \ {"ctrl", "shift", "alt", "cmd"})

\* modifiers and multi-character tokens in angle brackets, the rest bare
Bracketed(seq) ==
    [i \in 1..Len(seq) |->
        IF seq[i] \in {"ctrl", "shift", "alt", "cmd"} \/ Len(seq[i]) > 1
        THEN "<" \o seq[i] \o ">" ELSE seq[i]]

\* C20: the display string and the persisted string of a token set list the
\* modifiers first, in the order ctrl, shift, alt, cmd, then the other
\* tokens; the display string joins the title-cased tokens with " + ", the
\* persisted string joins with "+" the tokens, modifiers and multi-character
\* tokens in angle brackets; {ctrl, alt, a} gives "Ctrl + Alt + A" and
\* "<ctrl>+<alt>+a"
C20_CanonicalRendering ==
    /\ v_pc \in {"validated", "generated", "done"} =>
          \E others \in OtherTokens :
              v_display = Join(TitleAll(ModifiersFirst \o others), " + ")
    /\ v_pc \in {"generated", "done"} =>
          \E others \in OtherTokens :
              v_hotkey_str = Join(Bracketed(ModifiersFirst \o others), "+")
    /\ (v_pc = "done" /\ v_keys = {"ctrl", "alt", "a"}) =>
          (v_display = "Ctrl + Alt + A" /\ v_hotkey_str = "<ctrl>+<alt>+a")

\* the set {shift, ctrl, f4, a} rendered both ways
C20_Witness ==
    /\ v_pc = "done"
    /\ v_keys = {"a", "f4", "shift", "ctrl"}
    /\ Len(v_display) = Len("Ctrl + Shift + A + F4")
    /\ SubSeq(v_display, 1, 12) = "Ctrl + Shift"
    /\ SubSeq(v_hotkey_str, 1, 14) = "<ctrl>+<shift>"

\* the non-modifier tokens of the set, least token first
SortedOthers == Sorted(v_keys \ {"ctrl", "shift", "alt", "cmd"})

\* C21: in the persisted string the non-modifier tokens follow the modifiers
\* in the lexicographic order of the tokens, the order the display string
\* lists them in, for every set of tokens the recorder can record
C21_LexicographicOrder ==
    v_keys \subseteq RecordableTokens =>
        /\ v_pc \in {"validated", "generated", "done"} =>
              v_display = Join(TitleAll(ModifiersFirst \o SortedOthers), " + ")
        /\ v_pc \in {"generated", "done"} =>
              v_hotkey_str =
                  Join(Bracketed(ModifiersFirst \o SortedOthers), "+")

----------------------------------------------------------------------------
(* The Markdown file claim, under SpecMarkdown *)

\* the paths of the file list that name an existing file with extension .md
\* or .markdown in any letter case
ConsideredPaths ==
    {path \in {"C:\\d\\b.md", "C:\\d\\A.MD", "C:\\e\\a.md",
               "C:\\d\\c.Markdown"} :
        /\ \E i \in 1..Len(m_all_files) : m_all_files[i] = path
        /\ m_fs[path] \in {"utf-8", "gbk", "undecodable", "denied"}}

\* the file can be read with one of the encodings of the chain
Readable(path) == m_fs[path] \in {"utf-8", "gbk"}

\* the names listed in a sequence of (filename, text) pairs
NamesIn(pairs) == {pairs[i][1] : i \in 1..Len(pairs)}

\* C22: read_markdown_files_from_clipboard handles exactly the paths of the
\* file list that are existing files with extension .md or .markdown (in
\* any letter case), in the order of their lower-cased base names; each of
\* them is in exactly one of files_data (it could be read) and errors (it
\* could not), whatever happened to the files before it; found is TRUE
\* exactly if files_data is not empty
C22_MarkdownFiles ==
    m_pc = "done" =>
        /\ m_all_files \in {<<>>, m_clip}
        /\ {m_processed[i] : i \in 1..Len(m_processed)} = ConsideredPaths
        /\ Len(m_processed) = Cardinality(ConsideredPaths)
        /\ \A i, j \in 1..Len(m_processed) :
              i < j => ~StrLess(Lower(basename(m_processed[j])),
                                Lower(basename(m_processed[i])))
        /\ Len(m_files_data) + Len(m_errors) = Len(m_processed)
        /\ \A path \in ConsideredPaths :
              IF Readable(path)
              THEN /\ basename(path) \in NamesIn(m_files_data)
                   /\ basename(path) \notin NamesIn(m_errors)
              ELSE /\ basename(path) \in NamesIn(m_errors)
                   /\ basename(path) \notin NamesIn(m_files_data)
        /\ m_result =
              Some(<<m_files_data # <<>>, m_files_data, m_errors>>)

\* A.MD, listed after b.md, is handled first and cannot be decoded; b.md is
\* read all the same
C22_Witness ==
    /\ m_pc = "done"
    /\ m_clip = <<"C:\\d\\b.md", "C:\\d\\A.MD">>
    /\ m_fs["C:\\d\\A.MD"] = "undecodable"
    /\ m_processed = <<"C:\\d\\A.MD", "C:\\d\\b.md">>
    /\ NamesIn(m_errors) = {"A.MD"}
    /\ m_files_data = << <<"b.md", "# b.md">> >>
    /\ m_result[1][1] = TRUE

----------------------------------------------------------------------------
(* The two-thread claims, under SpecRace *)

\* the caller's stop_recording has returned and no handler is running
StoppedAndQuiet == rc_stop_pc = "returned" /\ rc_pc = At("idle")

\* C23: when stop_recording runs on the caller's thread while a key handler
\* runs on the listener thread, then, once stop_recording has returned and
\* the handler has finished, the pressed, released and ever-pressed sets are
\* empty and no on_update or on_finish invocation has started after
\* stop_recording returned
C23_StopRace ==
    StoppedAndQuiet =>
        /\ rc_pressed_keys = {}
        /\ rc_released_keys = {}
        /\ rc_all_pressed_keys = {}
        /\ rc_late = {}

\* the on_finish invocation, if any, carries exactly one argument that is
\* not None
OneArgument ==
    rc_finish # None =>
        (rc_finish[1].hotkey_str = None) # (rc_finish[1].error = None)

\* C25: every on_finish invocation carries exactly one argument that is not
\* None, the combination when validation passes and the error otherwise,
\* and a combination is generated from the complete ever-pressed set of the
\* session, never from an emptied one
C25_FinishArguments ==
    /\ OneArgument
    /\ (rc_finish # None /\ rc_finish[1].hotkey_str # None) =>
          rc_finish[1].hotkey_str = Some("<alt>+a")

----------------------------------------------------------------------------
(* The startup claims, under SpecRunner *)

\* validate_hotkey_string rejects the configured hotkey
Rejected == h_configured \in {"<ctrl>+c", "<shift>+a", "<ctrl>", "a", ""}

\* the calls of bind, and the number of notifications with a title
BindCalls == {h_binds[i] : i \in 1..Len(h_binds)}
Notified(title) ==
    Cardinality({i \in 1..Len(h_notifications) : h_notifications[i] = title})

\* a rejected hotkey is never passed to bind; app_state holds the default
\* from the validation on, and at every bind; once start has returned, bind
\* was called with the default, whether or not the save returned
ResetBeforeBind ==
    Rejected =>
        /\ \A call \in BindCalls :
              /\ call.hotkey = "<ctrl>+<shift>+b"
              /\ call.hotkey_str = "<ctrl>+<shift>+b"
              /\ call.config_hotkey = "<ctrl>+<shift>+b"
        /\ h_pc \in {"bind", "done"} =>
              /\ h_hotkey_str = "<ctrl>+<shift>+b"
              /\ h_config_hotkey = "<ctrl>+<shift>+b"
        /\ h_pc = "done" => Len(h_binds) = 1

\* C24 as stated: when validate_hotkey_string rejects the configured hotkey,
\* the rejected string is never passed to bind, app_state.hotkey_str and
\* app_state.config["hotkey"] are the default before binding, the corrected
\* config is saved, the user gets one invalid-config notification, and bind
\* is attempted with the default even if the save fails
C24_StartupValidation ==
    /\ ResetBeforeBind
    /\ (Rejected /\ h_pc \in {"bind", "done"}) =>
          /\ Len(h_saves) = 1
          /\ Notified("hotkey.runner.title_invalid_config") = 1

\* C24 amended: the save is made when the runner has a config loader and
\* the notification when it has a notification manager; without them there
\* is no save and no notification, and the rest is as stated
C24_StartupValidationAmended ==
    /\ ResetBeforeBind
    /\ (Rejected /\ h_pc \in {"bind", "done"}) =>
          /\ Len(h_saves) = IF h_config_loader # None THEN 1 ELSE 0
          /\ \A i \in 1..Len(h_saves) : h_saves[i].hotkey = "<ctrl>+<shift>+b"
          /\ Notified("hotkey.runner.title_invalid_config") =
                IF h_notification_manager # None THEN 1 ELSE 0
          /\ Len(h_notifications) =
                Notified("hotkey.runner.title_invalid_config")
    /\ ~Rejected => Notified("hotkey.runner.title_invalid_config") = 0

\* "<ctrl>+c" is rejected, the save of the corrected config fails, and the
\* default is bound all the same
C24_Witness ==
    /\ h_pc = "done"
    /\ h_configured = "<ctrl>+c"
    /\ h_saves = <<[hotkey |-> "<ctrl>+<shift>+b", returns |-> FALSE]>>
    /\ h_notifications = <<"hotkey.runner.title_invalid_config">>
    /\ h_bound = Some("<ctrl>+<shift>+b")

\* C28: with a notification manager, when start returns with no hotkey
\* bound, a failure notification has been sent; also when the configured
\* hotkey is the default one
C28_NoSilentFailure ==
    (h_pc = "done" /\ h_notification_manager # None /\ h_bound = None) =>
        Notified("hotkey.runner.title_binding_failed")
            + Notified("hotkey.runner.title_serious_error") >= 1

----------------------------------------------------------------------------
(* The stray release claim, under Spec *)

\* C26: in an active session the released set is a subset of the
\* ever-pressed set, also after the release of a key that was down when
\* recording started, and once every token pressed during the session has
\* been released the session is finished
C26_StrayRelease ==
    /\ recording => released_keys \subseteq all_pressed_keys
    /\ (session = "active" /\ PressedInSession # {}) =>
          \E n \in PressedInSession : Count("release", n) = 0

----------------------------------------------------------------------------
(* The clipboard pairing claim, under SpecPoller *)

CloseCalls == {"close", "close_raises"}

\* the attempts in which OpenClipboard returned: those that ended with data,
\* with the format unavailable, with the availability check raising, with
\* the read raising or with data None
OpenedAttempts ==
    {i \in 1..Len(p_outcomes) : p_outcomes[i] # "open_raises"}

\* C27: in _try_read_cf_html every OpenClipboard that returned is followed
\* by exactly one CloseClipboard call before the next OpenClipboard and
\* before the function returns, whatever the attempt did afterwards;
\* CloseClipboard is never called after an OpenClipboard that raised, and no
\* OpenClipboard is without its CloseClipboard when the function has returned
C27_OpenClosePairing ==
    /\ \A i \in 1..Len(p_calls) :
          /\ p_calls[i] = "open" =>
                (i < Len(p_calls) /\ p_calls[i + 1] \in CloseCalls)
          /\ p_calls[i] \in CloseCalls => (i > 1 /\ p_calls[i - 1] = "open")
    /\ Cardinality({i \in 1..Len(p_calls) : p_calls[i] = "open"})
          = Cardinality(OpenedAttempts)
    /\ Cardinality({i \in 1..Len(p_calls) : p_calls[i] \in CloseCalls})
          = Cardinality(OpenedAttempts)
    /\ Cardinality({i \in 1..Len(p_calls) : p_calls[i] = "open_raises"})
          = Len(p_outcomes) - Cardinality(OpenedAttempts)

\* OpenClipboard raises, then the read raises, then the data is returned
\* although the last CloseClipboard raises
C27_Witness ==
    /\ p_pc = "returned"
    /\ p_outcomes = <<"open_raises", "get_raises", "data">>
    /\ p_calls = <<"open_raises", "open", "close", "open", "close_raises">>
    /\ p_result = Some(ClipboardData)

\* C29: batch accounting of execute_docx_batch

\* the entries of seq at the positions in S, in order
RECURSIVE Pick(_, _, _)
Pick(seq, S, i) ==
    IF i > Len(seq) THEN <<>>
    ELSE (IF i \in S THEN <<seq[i]>> ELSE <<>>) \o Pick(seq, S, i + 1)

FailureNames(failures) == [i \in DOMAIN failures |-> failures[i][1]]

\* the failures of the returned value after the pre-failures and before a
\* "_batch_clipboard" entry
ItemFailures ==
    LET failures == b_result[1].failures
        last == IF b_copy = "raised" THEN Len(failures) - 1 ELSE Len(failures)
    IN  SubSeq(failures, Len(b_pre_failures) + 1, last)

\* C29: when execute_docx_batch has returned, the failures start with the
\* pre-failures in their order (and are exactly them, with no success, when
\* there were no items); the items split into those whose output paths
\* make up success_paths and those whose source filenames make up the
\* failures that follow, each in the order of the items, so that the two
\* counts add up to the number of items; and a failed final clipboard copy
\* adds the one entry "_batch_clipboard" at the end and nothing else.
C29_BatchAccounting ==
    b_pc = "done" =>
        LET result == b_result[1]
            n == Len(b_items)
        IN  /\ Len(result.failures) >= Len(b_pre_failures)
            /\ SubSeq(result.failures, 1, Len(b_pre_failures)) = b_pre_failures
            /\ n = 0 => result = BatchResult(<<>>, b_pre_failures)
            /\ Len(result.success_paths) + Len(ItemFailures) = n
            /\ n > 0 =>
                 \E S \in SUBSET (1..n) :
                    /\ result.success_paths =
                          Pick([i \in 1..n |-> b_normalized[i].output_path],
                               S, 1)
                    /\ FailureNames(ItemFailures) =
                          Pick([i \in 1..n |-> b_items[i].source_filename],
                               (1..n) \ S, 1)
            /\ \A i \in DOMAIN ItemFailures :
                 ItemFailures[i][1] # "_batch_clipboard"
            /\ b_copy = "raised" =>
                 /\ result.failures[Len(result.failures)]
                        = <<"_batch_clipboard", "error">>
                 /\ result.success_paths = b_success_paths
                 /\ result.success_paths # <<>>

\* a clipboard batch with a pre-failure, one item that succeeded and one
\* that failed, whose final copy to the clipboard failed
C29_Witness ==
    /\ b_pc = "done"
    /\ b_action = "clipboard"
    /\ b_pre_failures # <<>>
    /\ Len(b_items) = 2
    /\ Len(b_result[1].success_paths) = 1
    /\ b_copy = "raised"
    /\ Len(b_result[1].failures) = Len(b_pre_failures) + 2

\* C30: when execute of the Excel or the Word workflow has finished, it
\* has sent exactly one notification, and never more than one on the way;
\* that notification is a success exactly when the placer reported
\* success and an error on every other path; the keep_file save is made
\* only after a successful placement with keep_file set, and whether it
\* succeeds or fails the one notification stays the success it was.
C30_OneNotification ==
    /\ Len(w_notifications) <= 1
    /\ w_pc \in {"save", "done"} =>
         /\ Len(w_notifications) = 1
         /\ w_notifications[1].ok <=> w_placed = "success"
    /\ w_pc = "save" \/ w_saved # "not_called" =>
         w_placed = "success" /\ w_config.keep_file

\* a Word run from Markdown files whose placement succeeded and whose
\* keep_file save failed
C30_Witness ==
    /\ w_pc = "done"
    /\ w_workflow = "word"
    /\ w_from_md_file
    /\ w_placed = "success"
    /\ w_saved = "failed"
    /\ Len(w_notifications) = 1

====
